---- MODULE Spec2Model ----
(***************************************************************************)
(* A model of the Aleo wallet: the account ledger (wallet_core.py), the    *)
(* transaction manager (transaction_manager.py), the chain synchronisation *)
(* (blockchain_integration.py), the vault encryption (wallet_core.py) and  *)
(* the security manager (security.py).                                     *)
(*                                                                         *)
(* Amounts are integers in units of 0.00001 ALEO (the fee per byte), so    *)
(* default_fee 0.001 is 100 and min_fee 0.0001 is 10.  Account and contact *)
(* indices are 0-based as in the source; accounts[i] of the source is      *)
(* accounts[i + 1] here.                                                   *)
(***************************************************************************)
EXTENDS Integers, Sequences, FiniteSets, TLC

----------------------------------------------------------------------------
(* Bounds of the model                                                     *)

MaxAccounts == 1        \* accounts the ledger may hold
MaxTx == 2              \* transactions in the histories of the wallet
MaxSendTx == 3          \* the same where two callers send concurrently
MaxClock == 1           \* seconds the ledger clock may advance
MaxGateTicks == 3       \* advances of the clock seen by the security manager
GateStep == 1800        \* seconds of one such advance
MaxVaultTx == 1         \* transactions in the wallet put into the vault
MantissaBits == 11      \* significant bits of a float (53 in CPython)

----------------------------------------------------------------------------
(* Program constants                                                       *)

default_fee == 100
min_fee == 10
fee_per_byte == 1
MinAddressLen == 60
MinPrivateKeyLen == 59
MinViewKeyLen == 53
SeedLen == 32
DigestLen == 32
PrivateKeyChars == 52
ViewKeyChars == 46
AddressChars == 58
FallbackHeight == 100000
failed_attempts_limit == 5
LockoutSeconds == 3600
auto_lock_timeout == 300
BlockSize == 16

STATUS_PENDING == "Pending"
STATUS_CONFIRMED == "Confirmed"
STATUS_FAILED == "Failed"

----------------------------------------------------------------------------
(* Input domains                                                           *)

Procs == {1, 2}                       \* threads calling send_transaction
AccountIndices == 0 .. MaxAccounts    \* MaxAccounts itself is never valid
Amounts == {300}                      \* amounts received
SendAmounts == {0, 200}               \* amounts a caller asks to send
Memos == {<<>>, <<"t", "x">>}
PeerAddressLen == 63                  \* the length of an address of the chain
Statuses == {STATUS_PENDING, STATUS_CONFIRMED, STATUS_FAILED}

\* An address is its prefix, its length and a tag that tells addresses of
\* the same shape apart.
Address(pfx, len, tag) == [pfx |-> pfx, len |-> len, tag |-> tag]
PeerAddress == Address("aleo1", PeerAddressLen, "peer")
ShortAddress == Address("aleo1", 14, "recipient")     \* "aleo1recipient"
BadPrefixAddress == Address("ale01", PeerAddressLen, "bad")

\* Byte strings are an identity and a length; sha256 gives 32 bytes that
\* differ for different inputs.
Bytes(id, len) == [id |-> id, len |-> len]
sha256(bytes) == Bytes(<<"sha256", bytes.id>>, DigestLen)

\* base64.b64encode(bytes).decode('utf-8'): four characters for every
\* three bytes, the padding characters included.
Base64Len(n) == 4 * ((n + 2) \div 3)
b64encode(bytes) == [of |-> bytes, len |-> Base64Len(bytes.len)]

\* text[:n]
Prefix(text, n) == [text EXCEPT !.len = IF @ < n THEN @ ELSE n]

\* The seeds secrets.token_bytes(32) may give.
Seed(t) == Bytes(t, SeedLen)
Seeds == {Seed("A1"), Seed("A2")}

\* generate_account with [:40] in place of [:52] for the private key.
private_key_of_Truncated(seed) ==
  [pfx |-> "APrivateKey1", body |-> Prefix(b64encode(seed), 40)]

\* The private key, view key and address generate_account and
\* generate_new_key_pair derive from a seed.
private_key_of(seed) ==
  [pfx |-> "APrivateKey1", body |-> Prefix(b64encode(seed), PrivateKeyChars)]

view_key_of(view_key_seed) ==
  [pfx |-> "AViewKey1",
   body |-> Prefix(b64encode(view_key_seed), ViewKeyChars)]

address_of(address_seed) ==
  LET text == Prefix(b64encode(address_seed), AddressChars)
  IN Address("aleo1", 5 + text.len, text)

generate_new_key_pair(seed) ==
  LET view_key_seed == sha256(seed)
  IN [private_key |-> private_key_of(seed),
      view_key |-> view_key_of(view_key_seed),
      address |-> address_of(sha256(view_key_seed))]

OwnAddress(t) == generate_new_key_pair(Seed(t)).address
OwnAddresses == {OwnAddress("A1"), OwnAddress("A2")}
Recipients == {PeerAddress, ShortAddress, BadPrefixAddress}

\* Transaction ids: "at<seconds>" ids are the pair <<"at", seconds>>, ids
\* issued by the chain are <<"chain", k>>.
AtId(t) == <<"at", t>>
ChainId(k) == <<"chain", k>>
NoId == <<"none", 0>>
\* transaction.get("signature") of a transaction that was not signed.
NoSig == <<"none", 0>>

\* The transactions the chain holds: two that touch the address tagged
\* "A1", and three payments to the address tagged "A2", of which one is of
\* an amount that takes every significant bit of a float.
ChainTxs ==
  { [id |-> ChainId(1), sender |-> PeerAddress,
     recipient |-> OwnAddress("A1"),
     amount |-> 300, fee |-> 0, timestamp |-> 0, block_height |-> 5],
    [id |-> ChainId(2), sender |-> OwnAddress("A1"),
     recipient |-> PeerAddress,
     amount |-> 200, fee |-> 100, timestamp |-> 1, block_height |-> 6],
    [id |-> ChainId(3), sender |-> PeerAddress,
     recipient |-> OwnAddress("A2"),
     amount |-> 2 ^ MantissaBits, fee |-> 0, timestamp |-> 0,
     block_height |-> 4],
    [id |-> ChainId(4), sender |-> PeerAddress,
     recipient |-> OwnAddress("A2"),
     amount |-> 1, fee |-> 0, timestamp |-> 0, block_height |-> 5],
    [id |-> ChainId(5), sender |-> PeerAddress,
     recipient |-> OwnAddress("A2"),
     amount |-> 1, fee |-> 0, timestamp |-> 1, block_height |-> 6] }
ChainIds == {c.id : c \in ChainTxs}
ChainTx(id) == CHOOSE c \in ChainTxs : c.id = id
LatestHeights == {7, FallbackHeight}
FetchOutcomes == {"ok", "empty", "raise"}
\* What get_transaction does for each of the listed ids.
Outcomes(tx_ids) == [{tx_ids[k] : k \in 1 .. Len(tx_ids)} -> FetchOutcomes]

----------------------------------------------------------------------------
VARIABLES
  accounts,        \* AleoWalletCore.accounts
  file,            \* the wallet file on disk
  saved,           \* what the last save_wallet that wrote was given
  is_encrypted,    \* AleoWalletCore.is_encrypted
  encryption_key,  \* AleoWalletCore.encryption_key
  salt,            \* AleoWalletCore.salt
  now,             \* int(time.time())
  pc,              \* where each send_transaction caller stands
  pending,         \* the transaction object each caller holds
  monitors,        \* the monitor threads started and not yet run
  call,            \* the operation that ran last, with its arguments
  result,          \* what that operation returned or raised
  settings,        \* SecurityManager.settings
  compared,        \* the last verify_master_password compared the hashes
  streak,          \* wrong-password verifications since the last success
  streakAt,        \* when streak reached failed_attempts_limit
  blob,            \* the last output of SecurityManager.encrypt_data
  sync_in_progress, \* BlockchainIntegration.sync_in_progress
  last_sync_time,  \* BlockchainIntegration.last_sync_time
  syncing,         \* where each sync_with_blockchain caller stands
  is_connected,    \* BlockchainIntegration.is_connected
  sync_thread,     \* where the thread of start_sync_thread stands
  writable         \* open(wallet_file, "w") succeeds

vars == <<accounts, file, saved, is_encrypted, encryption_key, salt, now, pc, pending,
          monitors, call, result, settings, compared, streak, streakAt,
          blob, sync_in_progress, last_sync_time, syncing, is_connected,
          sync_thread, writable>>

securityVars == <<settings, compared, streak, streakAt, blob>>
cryptVars == <<is_encrypted, encryption_key, salt>>
ledgerVars == <<accounts, file, saved, is_encrypted, encryption_key, salt, pc,
                pending, monitors>>

syncVars == <<sync_in_progress, last_sync_time, syncing, is_connected,
              sync_thread>>

walletVars == <<accounts, file, saved, is_encrypted, encryption_key, salt>>
sendVars == <<pc, pending, monitors>>

None == "None"
NoAccount == [address |-> None]     \* the None get_account answers
NoTx == [type |-> None]             \* the None get_transaction answers
NoKey == <<>>                       \* encryption_key = None
NoFile == [kind |-> "none"]         \* no wallet file on disk
NoSave == [password |-> None]       \* save_wallet has not run

ValidIndex(accs, account_index) ==
  0 <= account_index /\ account_index < Len(accs)

----------------------------------------------------------------------------
(* wallet_core.py: pure parts                                              *)

\* validate_address: the prefix "aleo1" and a length of at least 60.
validate_address(address) ==
  address.pfx = "aleo1" /\ address.len >= MinAddressLen

\* get_account: the account at the index, or None.
get_account(accs, index) ==
  IF 0 <= index /\ index < Len(accs) THEN accs[index + 1] ELSE NoAccount

\* get_balance: the stored balance, 0.0 for an index out of range.
get_balance(accs, account_index) ==
  IF 0 <= account_index /\ account_index < Len(accs)
    THEN accs[account_index + 1].balance
    ELSE 0

\* get_transactions without filter and limit: [] for an index out of range.
get_transactions(accs, account_index) ==
  IF 0 <= account_index /\ account_index < Len(accs)
    THEN accs[account_index + 1].transactions
    ELSE <<>>

\* json.dumps of {"accounts": ..., "version": "1.0"}.
WalletData(accs) == [accounts |-> accs, version |-> "1.0"]

\* PBKDF2HMAC(SHA256, salt, 100000 iterations): a key is determined by the
\* password and the salt, and distinct pairs give distinct keys.
DeriveKey(password, slt) == <<password, slt>>

\* Fernet(key).encrypt: the token carries the key it was sealed with.
FernetEncrypt(key, plaintext) == [key |-> key, plaintext |-> plaintext]

\* save_wallet that writes the token without the salt before it: a reader
\* takes the first 16 bytes of the token for the salt.
SavedFile_NoSalt(accs, enc, key, slt) ==
  IF enc /\ key # NoKey
    THEN [kind |-> "enc", salt |-> "token",
          token |-> FernetEncrypt(key, WalletData(accs))]
    ELSE [kind |-> "plain", data |-> WalletData(accs)]

\* What save_wallet writes: salt and Fernet token when the wallet is
\* encrypted and holds a key, the JSON text otherwise.
SavedFile(accs, enc, key, slt) ==
  IF enc /\ key # NoKey
    THEN [kind |-> "enc", salt |-> slt,
          token |-> FernetEncrypt(key, WalletData(accs))]
    ELSE [kind |-> "plain", data |-> WalletData(accs)]

\* What save_wallet was asked to keep: the accounts, and the password of
\* the key it sealed them with, None for plain text.
Saved(accs, enc, key) ==
  [accounts |-> accs,
   password |-> IF enc /\ key # NoKey THEN key[1] ELSE None]

\* Amounts and balances are Python floats. A float holds MantissaBits
\* significant bits; the result of + and - is the exact result rounded to
\* the nearest such number, ties to the even one.
RECURSIVE BitLength(_)
BitLength(n) == IF n = 0 THEN 0 ELSE 1 + BitLength(n \div 2)

RoundFloat(x) ==
  LET a == IF x < 0 THEN 0 - x ELSE x
      e == BitLength(a) - MantissaBits
  IN IF e <= 0 THEN x
     ELSE LET q == a \div (2 ^ e)
              r == a % (2 ^ e)
              half == 2 ^ (e - 1)
              m == (IF r > half \/ (r = half /\ q % 2 = 1)
                      THEN q + 1 ELSE q) * (2 ^ e)
          IN IF x < 0 THEN 0 - m ELSE m

fadd(a, b) == RoundFloat(a + b)
fsub(a, b) == RoundFloat(a - b)

\* add_transaction on the account list: the transaction goes to the front
\* of the history and the balance moves by its amount whatever its status.
add_transaction(accs, account_index, transaction) ==
  IF 0 <= account_index /\ account_index < Len(accs)
    THEN [accs EXCEPT ![account_index + 1] =
            [@ EXCEPT
               !.transactions = <<transaction>> \o @,
               !.balance =
                 IF transaction.type = "Sent"
                   THEN fsub(@, fadd(transaction.amount, transaction.fee))
                 ELSE IF transaction.type = "Received"
                   THEN fadd(@, transaction.amount)
                 ELSE @]]
    ELSE accs

----------------------------------------------------------------------------
(* transaction_manager.py: pure parts                                      *)

Max(a, b) == IF a >= b THEN a ELSE b

\* calculate_fee: the default fee plus the memo bytes, at least min_fee.
calculate_fee(amount, memo) ==
  Max(fadd(default_fee,
           IF memo # <<>> THEN RoundFloat(Len(memo) * fee_per_byte) ELSE 0),
      min_fee)

Raise(msg) == [ok |-> FALSE, err |-> msg]

\* create_transaction with the balance compared to the amount alone, the
\* fee forgotten.
create_transaction_NoFee(accs, clock, account_index, recipient_address, amount, memo) ==
  IF amount <= 0
    THEN Raise("Amount must be greater than zero")
  ELSE IF ~validate_address(recipient_address)
    THEN Raise("Invalid recipient address")
  ELSE IF get_account(accs, account_index) = NoAccount
    THEN Raise("Account not found")
  ELSE IF get_balance(accs, account_index) < amount
    THEN Raise("Insufficient balance")
  ELSE [ok |-> TRUE, err |-> None,
        tx |-> [type |-> "Sent",
                sender |-> get_account(accs, account_index).address,
                recipient |-> recipient_address,
                amount |-> amount,
                fee |-> calculate_fee(amount, memo),
                memo |-> memo,
                timestamp |-> clock,
                status |-> STATUS_PENDING,
                transaction_id |-> NoId,
                block_height |-> 0,
                signature |-> NoSig]]

\* create_transaction: the checks in the order of the source, then the
\* transaction object.  Nothing of the wallet is written.
create_transaction(accs, clock, account_index, recipient_address, amount, memo) ==
  IF amount <= 0
    THEN Raise("Amount must be greater than zero")
  ELSE IF ~validate_address(recipient_address)
    THEN Raise("Invalid recipient address")
  ELSE IF get_account(accs, account_index) = NoAccount
    THEN Raise("Account not found")
  ELSE IF get_balance(accs, account_index)
            < fadd(amount, calculate_fee(amount, memo))
    THEN Raise("Insufficient balance")
  ELSE [ok |-> TRUE, err |-> None,
        tx |-> [type |-> "Sent",
                sender |-> get_account(accs, account_index).address,
                recipient |-> recipient_address,
                amount |-> amount,
                fee |-> calculate_fee(amount, memo),
                memo |-> memo,
                timestamp |-> clock,
                status |-> STATUS_PENDING,
                transaction_id |-> NoId,
                block_height |-> 0,
                signature |-> NoSig]]

\* The index of the first transaction with the id, 0 when there is none
\* (the for loops of get_transaction and update_transaction_status).
RECURSIVE FirstWithId(_, _, _)
FirstWithId(txs, transaction_id, k) ==
  IF k > Len(txs) THEN 0
  ELSE IF txs[k].transaction_id = transaction_id THEN k
  ELSE FirstWithId(txs, transaction_id, k + 1)

\* get_transaction: the first transaction with the id, or None.
get_transaction(accs, account_index, transaction_id) ==
  LET txs == get_transactions(accs, account_index)
      k == FirstWithId(txs, transaction_id, 1)
  IN IF k = 0 THEN NoTx ELSE txs[k]

\* update_transaction_status on the account list: the first transaction
\* with the id takes the status; the balance is not touched.
update_transaction_status(accs, account_index, transaction_id, status) ==
  LET txs == get_transactions(accs, account_index)
      k == FirstWithId(txs, transaction_id, 1)
  IN IF k = 0 THEN accs
     ELSE [accs EXCEPT ![account_index + 1].transactions[k].status = status]

----------------------------------------------------------------------------
(* The state after AleoWalletCore(wallet_file) on a missing file and       *)
(* TransactionManager(wallet_core).                                        *)

InitWallet ==
  /\ accounts = <<>>
  /\ writable = TRUE
  /\ file = NoFile
  /\ saved = NoSave
  /\ is_encrypted = FALSE
  /\ encryption_key = NoKey
  /\ salt = None

InitSend ==
  /\ pc = [p \in Procs |-> "idle"]
  /\ pending = [p \in Procs |-> [account_index |-> 0, tx |-> NoTx]]
  /\ monitors = <<>>

\* SecurityManager(data_dir) without a settings file: default_settings.
\* lockout_time is absent and read as 0; password_salt and password_hash
\* are absent.
NoHash == <<>>
default_settings ==
  [password_required |-> TRUE,
   auto_lock_timeout |-> auto_lock_timeout,
   failed_attempts_limit |-> failed_attempts_limit,
   last_access |-> 0,
   failed_attempts |-> 0,
   locked |-> FALSE,
   lockout_time |-> 0,
   password_salt |-> None,
   password_hash |-> NoHash]

NoBlob == [kind |-> "none"]

InitSecurity ==
  /\ settings = default_settings
  /\ compared = FALSE
  /\ streak = 0
  /\ streakAt = 0
  /\ blob = NoBlob

\* BlockchainIntegration(wallet_core, transaction_manager): no sync has run
\* and none is running. The background thread and a manual caller are the
\* two callers of sync_with_blockchain.
SyncCallers == {"background", "manual"}
NotSyncing == [at |-> "idle", i |-> 0, n |-> 0, failed |-> FALSE]

InitSync ==
  /\ sync_in_progress = FALSE
  /\ last_sync_time = 0
  /\ syncing = [c \in SyncCallers |-> NotSyncing]
  /\ is_connected = FALSE
  /\ sync_thread = "top"

Init ==
  /\ InitWallet
  /\ InitSend
  /\ InitSecurity
  /\ InitSync
  /\ now = 0
  /\ call = [op |-> "init"]
  /\ result = None

\* The with open(...) of save_wallet: the file is written, or open raises
\* and the except branch prints the error and leaves the file.
WriteFile(f, s) ==
  IF writable THEN file' = f /\ saved' = s
  ELSE UNCHANGED <<file, saved>>

\* save_wallet as the last statement of a mutation that leaves accs.
Save(accs) ==
  WriteFile(SavedFile(accs, is_encrypted, encryption_key, salt),
            Saved(accs, is_encrypted, encryption_key))

\* The histories of the wallet hold fewer than bound entries together.
RECURSIVE TotalTx(_)
TotalTx(accs) ==
  IF accs = <<>> THEN 0 ELSE Len(Head(accs).transactions) + TotalTx(Tail(accs))
HistoryRoom(bound) == TotalTx(accounts) < bound

\* AleoWalletCore.add_transaction as a statement: the list changes and the
\* wallet is saved when the index is valid, nothing happens otherwise.
AddTransaction(account_index, transaction) ==
  /\ accounts' = add_transaction(accounts, account_index, transaction)
  /\ IF ValidIndex(accounts, account_index)
       THEN Save(accounts')
       ELSE UNCHANGED <<file, saved>>

----------------------------------------------------------------------------
(* Ledger operations                                                       *)

\* time.time() advances by a second.
Tick ==
  /\ now' = now + 1
  /\ call' = [op |-> "tick"]
  /\ UNCHANGED <<walletVars, sendVars, result, securityVars, syncVars, writable>>

\* generate_account: a fresh address, balance 0.0, empty history.
GenerateAccount(seed) ==
  LET keys == generate_new_key_pair(seed)
  IN
  /\ \A k \in 1 .. Len(accounts) : accounts[k].address # keys.address
  /\ accounts' = Append(accounts, [name |-> <<"Account", Len(accounts) + 1>>,
                                   private_key |-> keys.private_key,
                                   view_key |-> keys.view_key,
                                   address |-> keys.address,
                                   created_at |-> now,
                                   balance |-> 0,
                                   transactions |-> <<>>,
                                   contacts |-> <<>>])
  /\ Save(accounts')
  /\ call' = [op |-> "generate_account"]
  /\ result' = keys.address
  /\ UNCHANGED <<cryptVars, now, sendVars, securityVars, syncVars, writable>>

\* create_transaction, the first statement of send_transaction; it also
\* stands for a direct call of create_transaction.
CreateTransaction(p, account_index, recipient_address, amount, memo) ==
  LET r == create_transaction(accounts, now, account_index,
                              recipient_address, amount, memo)
  IN /\ pc[p] = "idle"
     /\ call' = [op |-> "create_transaction",
                 account_index |-> account_index,
                 recipient_address |-> recipient_address,
                 amount |-> amount, memo |-> memo]
     /\ result' = [ok |-> r.ok, err |-> r.err]
     /\ IF r.ok
          THEN /\ pc' = [pc EXCEPT ![p] = "created"]
               /\ pending' = [pending EXCEPT
                     ![p] = [account_index |-> account_index, tx |-> r.tx]]
          ELSE UNCHANGED <<pc, pending>>
     /\ UNCHANGED <<walletVars, now, monitors, securityVars, syncVars, writable>>

\* sign_transaction: raises when the account is gone, else adds the
\* signature "sig_<seconds>".
SignTransaction(p) ==
  /\ pc[p] = "created"
  /\ call' = [op |-> "sign_transaction"]
  /\ IF get_account(accounts, pending[p].account_index) = NoAccount
       THEN /\ result' = Raise("Account not found")
            /\ pc' = [pc EXCEPT ![p] = "idle"]
            /\ pending' = [pending EXCEPT ![p].tx = NoTx]
       ELSE /\ result' = [ok |-> TRUE, err |-> None]
            /\ pc' = [pc EXCEPT ![p] = "signed"]
            /\ pending' = [pending EXCEPT ![p].tx.signature = <<"sig", now>>]
  /\ UNCHANGED <<walletVars, now, monitors, securityVars, syncVars, writable>>

\* broadcast_transaction of the transaction its caller holds: the id
\* The thread that start_monitoring_transaction starts: it holds the index
\* and the id it was given.  owner is the address of the account it was
\* started for; i, depth and held describe the transaction its loop has
\* found (i = 0 before that): the position in the list it read, the position
\* of that dict counted from the oldest entry, and the address of the
\* account whose list it read.
Watch(account_index, transaction_id) ==
  [account_index |-> account_index,
   transaction_id |-> transaction_id,
   owner |-> get_account(accounts, account_index).address,
   i |-> 0, depth |-> 0,
   held |-> get_account(accounts, account_index).address]

\* "at<seconds>", add_transaction, and a monitor thread for
\* (account_index, transaction_id).
Broadcast(p) ==
  LET account_index == pending[p].account_index
      transaction_id == AtId(now)
      transaction == [pending[p].tx EXCEPT !.transaction_id = transaction_id]
  IN /\ pending[p].tx # NoTx
     /\ AddTransaction(account_index, transaction)
     /\ monitors' = Append(monitors, Watch(account_index, transaction_id))
     /\ pc' = [pc EXCEPT ![p] = "idle"]
     /\ pending' = [pending EXCEPT ![p].tx = NoTx]
     /\ call' = [op |-> "broadcast_transaction"]
     /\ result' = [ok |-> TRUE, err |-> None,
                   transaction_id |-> transaction_id]
     /\ UNCHANGED <<cryptVars, now, securityVars, syncVars, writable>>

\* The last statement of send_transaction: broadcast_transaction of the
\* transaction that sign_transaction returned.
BroadcastTransaction(p) ==
  /\ pc[p] = "signed"
  /\ Broadcast(p)

\* send_transaction run by one caller without interruption: create, sign,
\* broadcast.  A check that fails raises out of send_transaction and
\* nothing is written.
SendTransaction(account_index, recipient_address, amount, memo) ==
  LET r == create_transaction(accounts, now, account_index,
                              recipient_address, amount, memo)
      transaction_id == AtId(now)
  IN /\ call' = [op |-> "send_transaction"]
     /\ IF r.ok
          THEN /\ AddTransaction(account_index,
                    [r.tx EXCEPT !.signature = <<"sig", now>>,
                                 !.transaction_id = transaction_id])
               /\ monitors' = Append(monitors,
                                 Watch(account_index, transaction_id))
               /\ result' = [ok |-> TRUE, err |-> None,
                             transaction_id |-> transaction_id]
          ELSE /\ result' = [ok |-> FALSE, err |-> r.err]
               /\ UNCHANGED <<accounts, file, saved, monitors>>
     /\ UNCHANGED <<cryptVars, now, pc, pending, securityVars, syncVars, writable>>

\* The monitor thread of start_monitoring_transaction after its sleep:
\* update_transaction_status(Confirmed), then the block height of the first
\* transaction with the id is set to the latest height the API answers (0
\* on an error response, the fallback on an exception).
Monitor(m, latest_height) ==
  LET account_index == monitors[m].account_index
      transaction_id == monitors[m].transaction_id
      confirmed == update_transaction_status(accounts, account_index,
                                             transaction_id, STATUS_CONFIRMED)
      k == FirstWithId(get_transactions(confirmed, account_index),
                       transaction_id, 1)
  IN /\ m \in 1 .. Len(monitors)
     /\ accounts' =
          IF k = 0 THEN confirmed
          ELSE [confirmed EXCEPT
                  ![account_index + 1].transactions[k].block_height =
                     latest_height]
     /\ IF k = 0 THEN UNCHANGED <<file, saved>> ELSE Save(accounts')
     /\ monitors' = [j \in 1 .. Len(monitors) - 1 |->
                       IF j < m THEN monitors[j] ELSE monitors[j + 1]]
     /\ call' = [op |-> "monitor"]
     /\ result' = None
     /\ UNCHANGED <<cryptVars, now, pc, pending, securityVars, syncVars, writable>>

\* update_transaction_status called by a client.
UpdateTransactionStatus(account_index, transaction_id, status) ==
  LET found == get_transaction(accounts, account_index, transaction_id) # NoTx
  IN /\ accounts' = update_transaction_status(accounts, account_index,
                                              transaction_id, status)
     /\ IF found THEN Save(accounts') ELSE UNCHANGED <<file, saved>>
     /\ call' = [op |-> "update_transaction_status"]
     /\ result' = found
     /\ UNCHANGED <<cryptVars, now, sendVars, securityVars, syncVars, writable>>

\* receive_transaction: a Confirmed Received transaction with the given id,
\* or with "at<seconds>" when none is given, recorded by add_transaction.
\* (The source raises on an invalid index: get_account(...)["address"].)
ReceiveTransaction(account_index, sender_address, amount, given_id) ==
  LET transaction_id == IF given_id = None THEN AtId(now) ELSE given_id
      transaction == [type |-> "Received",
                      sender |-> sender_address,
                      recipient |-> get_account(accounts, account_index).address,
                      amount |-> amount,
                      fee |-> 0,
                      memo |-> <<>>,
                      timestamp |-> now,
                      status |-> STATUS_CONFIRMED,
                      transaction_id |-> transaction_id,
                      block_height |-> 0]
  IN /\ call' = [op |-> "receive_transaction",
                 account_index |-> account_index,
                 transaction_id |-> transaction_id]
     /\ IF ~ValidIndex(accounts, account_index)
          THEN /\ result' = Raise("TypeError")
               /\ UNCHANGED <<accounts, file, saved>>
          ELSE /\ AddTransaction(account_index, transaction)
               /\ result' = [ok |-> TRUE, err |-> None]
     /\ UNCHANGED <<cryptVars, now, sendVars, securityVars, syncVars, writable>>

----------------------------------------------------------------------------
(* blockchain_integration.py                                               *)

\* _process_transaction: nothing for empty details or a transaction that
\* does not touch the account, else a Confirmed Sent or Received
\* transaction recorded by add_transaction.
process_transaction(accs, account_index, tx_details) ==
  LET account == get_account(accs, account_index)
      tx_type == IF tx_details.sender = account.address THEN "Sent"
                 ELSE IF tx_details.recipient = account.address THEN "Received"
                 ELSE None
      transaction == [type |-> tx_type,
                      sender |-> tx_details.sender,
                      recipient |-> tx_details.recipient,
                      amount |-> tx_details.amount,
                      fee |-> tx_details.fee,
                      memo |-> <<>>,
                      timestamp |-> tx_details.timestamp,
                      status |-> STATUS_CONFIRMED,
                      transaction_id |-> tx_details.id,
                      block_height |-> tx_details.block_height]
  IN IF account = NoAccount \/ tx_type = None THEN accs
     ELSE add_transaction(accs, account_index, transaction)

\* The for loop of _sync_account over the listed ids: a known id is
\* skipped, a fetch that answers {} adds nothing, a fetch that raises ends
\* the loop.
RECURSIVE SyncLoop(_, _, _, _)
SyncLoop(accs, account_index, tx_ids, outcome) ==
  IF tx_ids = <<>> THEN [accs |-> accs, raised |-> FALSE]
  ELSE LET tx_id == Head(tx_ids)
       IN IF get_transaction(accs, account_index, tx_id) # NoTx
            THEN SyncLoop(accs, account_index, Tail(tx_ids), outcome)
          ELSE IF outcome[tx_id] = "raise"
            THEN [accs |-> accs, raised |-> TRUE]
          ELSE IF outcome[tx_id] = "empty"
            THEN SyncLoop(accs, account_index, Tail(tx_ids), outcome)
          ELSE SyncLoop(process_transaction(accs, account_index,
                                            ChainTx(tx_id)),
                        account_index, Tail(tx_ids), outcome)

\* The sum _update_account_balance computes, from balance on over the
\* history in its order (the newest transaction first): every Received
\* amount is added, every Sent amount and fee subtracted, whatever the
\* status.
RECURSIVE SumAll(_, _)
SumAll(balance, txs) ==
  IF txs = <<>> THEN balance
  ELSE SumAll(IF Head(txs).type = "Received"
                THEN fadd(balance, Head(txs).amount)
              ELSE IF Head(txs).type = "Sent"
                THEN fsub(balance, fadd(Head(txs).amount, Head(txs).fee))
              ELSE balance,
              Tail(txs))

update_account_balance(accs, account_index) ==
  IF get_account(accs, account_index) = NoAccount THEN accs
  ELSE [accs EXCEPT ![account_index + 1].balance =
          SumAll(0, accs[account_index + 1].transactions)]

\* The id lists the chain may answer for an address: the ids of its
\* transactions that touch the address, in any order, possibly not all.
Touches(address) ==
  {c.id : c \in {d \in ChainTxs : d.sender = address \/ d.recipient = address}}
IdLists(address) ==
  {l \in UNION {[1 .. n -> Touches(address)] : n \in 0 .. Cardinality(Touches(address))} :
     \A i, j \in 1 .. Len(l) : i # j => l[i] # l[j]}

\* _sync_account, one account of a sync_with_blockchain pass.
SyncAccount(account_index, tx_ids, outcome) ==
  LET loop == SyncLoop(accounts, account_index, tx_ids, outcome)
  IN /\ ValidIndex(accounts, account_index)
     /\ accounts' = IF loop.raised THEN loop.accs
                    ELSE update_account_balance(loop.accs, account_index)
     /\ IF loop.raised /\ loop.accs = accounts
          THEN UNCHANGED <<file, saved>>
          ELSE Save(accounts')
     /\ call' = [op |-> "sync_account"]
     /\ result' = ~loop.raised
     /\ UNCHANGED <<cryptVars, now, sendVars, securityVars, writable>>

----------------------------------------------------------------------------
(* The ledger: accounts, sends from two threads, receipts, status updates, *)
(* monitors and syncs.                                                     *)

TxIdInputs == {None, ChainId(1)}
AtIds == {AtId(t) : t \in 0 .. MaxClock}

Next ==
  \/ now < MaxClock /\ Tick
  \/ \E seed \in Seeds :
       Len(accounts) < MaxAccounts /\ GenerateAccount(seed)
  \/ \E account_index \in AccountIndices, recipient_address \in Recipients,
        amount \in SendAmounts :
       /\ HistoryRoom(MaxTx)
       /\ SendTransaction(account_index, recipient_address, amount, <<>>)
  \/ \E m \in 1 .. Len(monitors), latest_height \in LatestHeights :
       Monitor(m, latest_height)
  \/ \E account_index \in AccountIndices,
        transaction_id \in AtIds \cup ChainIds, status \in Statuses :
       UpdateTransactionStatus(account_index, transaction_id, status)
  \/ \E account_index \in AccountIndices, amount \in Amounts,
        given_id \in TxIdInputs :
       /\ HistoryRoom(MaxTx)
       /\ ReceiveTransaction(account_index, PeerAddress, amount, given_id)
  \/ \E account_index \in 0 .. Len(accounts) - 1 :
       \E tx_ids \in IdLists(get_account(accounts, account_index).address) :
       \E outcome \in Outcomes(tx_ids) :
         /\ TotalTx(accounts) + Len(tx_ids) <= MaxTx
         /\ SyncAccount(account_index, tx_ids, outcome)
         /\ UNCHANGED syncVars

Spec == Init /\ [][Next]_vars

----------------------------------------------------------------------------
(* Two callers of send_transaction on the same wallet, interleaved at the  *)
(* statement level (create, sign, broadcast); the clock stands still.      *)

NextSend ==
  \/ \E seed \in Seeds :
       Len(accounts) < MaxAccounts /\ GenerateAccount(seed)
  \/ \E account_index \in AccountIndices, amount \in Amounts :
       /\ HistoryRoom(MaxSendTx)
       /\ ReceiveTransaction(account_index, PeerAddress, amount, None)
  \/ \E p \in Procs, account_index \in AccountIndices,
        recipient_address \in Recipients, amount \in SendAmounts,
        memo \in Memos :
       CreateTransaction(p, account_index, recipient_address, amount, memo)
  \/ \E p \in Procs : SignTransaction(p)
  \/ \E p \in Procs :
       /\ HistoryRoom(MaxSendTx)
       /\ BroadcastTransaction(p)

SpecSend == Init /\ [][NextSend]_vars

----------------------------------------------------------------------------
(* The transaction manager called method by method: a caller creates a     *)
(* transaction, may have it signed, and hands what it holds to             *)
(* broadcast_transaction.                                                  *)

Caller == 1

NextEngine ==
  \/ now < MaxClock /\ Tick
  \/ \E seed \in Seeds :
       Len(accounts) < MaxAccounts /\ GenerateAccount(seed)
  \/ \E account_index \in AccountIndices, amount \in Amounts :
       /\ HistoryRoom(MaxSendTx)
       /\ ReceiveTransaction(account_index, PeerAddress, amount, None)
  \/ \E account_index \in AccountIndices, recipient_address \in Recipients,
        amount \in SendAmounts, memo \in Memos :
       CreateTransaction(Caller, account_index, recipient_address, amount, memo)
  \/ SignTransaction(Caller)
  \/ /\ HistoryRoom(MaxSendTx)
     /\ pc[Caller] \in {"created", "signed"}
     /\ Broadcast(Caller)

SpecEngine == Init /\ [][NextEngine]_vars

----------------------------------------------------------------------------
(* security.py: the master password                                        *)

GatePasswords == {"pw1", "pw2"}
GateSalts == {"s1"}
Timeouts == {auto_lock_timeout, 600, 2 * GateStep}

\* derive_key_from_password followed by sha256: the stored hash is
\* determined by the password and the salt, distinct pairs give distinct
\* hashes.
PasswordHash(password, slt) == <<password, slt>>

\* create_master_password on the settings.
create_master_password(s, password, slt, clock) ==
  [s EXCEPT !.password_salt = slt,
            !.password_hash = PasswordHash(password, slt),
            !.password_required = TRUE,
            !.last_access = clock,
            !.failed_attempts = 0,
            !.locked = FALSE]

\* verify_master_password with the lock test after the comparison: a locked
\* gate still compares and counts.
verify_master_password_LockAfterCompare(s, password, clock) ==
  IF ~s.password_required
    THEN [settings |-> s, ret |-> TRUE, compared |-> FALSE]
  ELSE IF s.password_salt = None \/ s.password_hash = NoHash
    THEN [settings |-> s, ret |-> FALSE, compared |-> FALSE]
  ELSE IF PasswordHash(password, s.password_salt) = s.password_hash
    THEN [settings |-> [s EXCEPT !.failed_attempts = 0,
                                 !.last_access = clock],
          ret |-> ~(s.locked /\ clock - s.lockout_time < LockoutSeconds),
          compared |-> TRUE]
  ELSE [settings |->
          [s EXCEPT !.failed_attempts = @ + 1,
                    !.locked = s.failed_attempts + 1 >= s.failed_attempts_limit
                               \/ @,
                    !.lockout_time =
                      IF s.failed_attempts + 1 >= s.failed_attempts_limit
                        THEN clock ELSE @],
        ret |-> FALSE, compared |-> TRUE]

\* verify_master_password that locks only above the limit.
verify_master_password_LimitExceeded(s, password, clock) ==
  IF ~s.password_required
    THEN [settings |-> s, ret |-> TRUE, compared |-> FALSE]
  ELSE IF s.locked /\ clock - s.lockout_time < LockoutSeconds
    THEN [settings |-> s, ret |-> FALSE, compared |-> FALSE]
  ELSE
    LET u == IF s.locked
               THEN [s EXCEPT !.locked = FALSE, !.failed_attempts = 0]
               ELSE s
    IN IF u.password_salt = None \/ u.password_hash = NoHash
         THEN [settings |-> u, ret |-> FALSE, compared |-> FALSE]
       ELSE IF PasswordHash(password, u.password_salt) = u.password_hash
         THEN [settings |-> [u EXCEPT !.failed_attempts = 0,
                                      !.last_access = clock],
               ret |-> TRUE, compared |-> TRUE]
       ELSE
         LET failed_attempts == u.failed_attempts + 1
         IN [settings |->
               IF failed_attempts > u.failed_attempts_limit
                 THEN [u EXCEPT !.failed_attempts = failed_attempts,
                                !.locked = TRUE,
                                !.lockout_time = clock]
                 ELSE [u EXCEPT !.failed_attempts = failed_attempts],
             ret |-> FALSE, compared |-> TRUE]

\* verify_master_password that leaves failed_attempts on a success.
verify_master_password_NoReset(s, password, clock) ==
  IF ~s.password_required
    THEN [settings |-> s, ret |-> TRUE, compared |-> FALSE]
  ELSE IF s.locked /\ clock - s.lockout_time < LockoutSeconds
    THEN [settings |-> s, ret |-> FALSE, compared |-> FALSE]
  ELSE
    LET u == IF s.locked
               THEN [s EXCEPT !.locked = FALSE, !.failed_attempts = 0]
               ELSE s
    IN IF u.password_salt = None \/ u.password_hash = NoHash
         THEN [settings |-> u, ret |-> FALSE, compared |-> FALSE]
       ELSE IF PasswordHash(password, u.password_salt) = u.password_hash
         THEN [settings |-> [u EXCEPT !.last_access = clock],
               ret |-> TRUE, compared |-> TRUE]
       ELSE
         LET failed_attempts == u.failed_attempts + 1
         IN [settings |->
               IF failed_attempts >= u.failed_attempts_limit
                 THEN [u EXCEPT !.failed_attempts = failed_attempts,
                                !.locked = TRUE,
                                !.lockout_time = clock]
                 ELSE [u EXCEPT !.failed_attempts = failed_attempts],
             ret |-> FALSE, compared |-> TRUE]

\* verify_master_password: the new settings, the value returned and whether
\* the hashes were compared.
verify_master_password(s, password, clock) ==
  IF ~s.password_required
    THEN [settings |-> s, ret |-> TRUE, compared |-> FALSE]
  ELSE IF s.locked /\ clock - s.lockout_time < LockoutSeconds
    THEN [settings |-> s, ret |-> FALSE, compared |-> FALSE]
  ELSE
    LET u == IF s.locked
               THEN [s EXCEPT !.locked = FALSE, !.failed_attempts = 0]
               ELSE s
    IN IF u.password_salt = None \/ u.password_hash = NoHash
         THEN [settings |-> u, ret |-> FALSE, compared |-> FALSE]
       ELSE IF PasswordHash(password, u.password_salt) = u.password_hash
         THEN [settings |-> [u EXCEPT !.failed_attempts = 0,
                                      !.last_access = clock],
               ret |-> TRUE, compared |-> TRUE]
       ELSE
         LET failed_attempts == u.failed_attempts + 1
         IN [settings |->
               IF failed_attempts >= u.failed_attempts_limit
                 THEN [u EXCEPT !.failed_attempts = failed_attempts,
                                !.locked = TRUE,
                                !.lockout_time = clock]
                 ELSE [u EXCEPT !.failed_attempts = failed_attempts],
             ret |-> FALSE, compared |-> TRUE]

\* A verification of a password other than the stored one, on a gate that
\* asks for the password and has one.
WrongPassword(s, password) ==
  /\ s.password_required
  /\ s.password_hash # NoHash
  /\ PasswordHash(password, s.password_salt) # s.password_hash

\* The verifications that failed on a wrong password since the last
\* successful verification or password creation, counted up to the limit,
\* and the time at which the count reached the limit.  A verification that
\* is refused although its password is the stored one leaves the count.
Streak(s, password, ret) ==
  IF WrongPassword(s, password)
    THEN (IF streak < failed_attempts_limit THEN streak + 1 ELSE streak)
  ELSE IF ret THEN 0
  ELSE streak

StreakAt(s, password, clock) ==
  IF WrongPassword(s, password) /\ streak + 1 = failed_attempts_limit
    THEN clock
    ELSE streakAt

gateFrame == <<ledgerVars, blob, syncVars, writable>>

\* time.time() as the security manager sees it.
GateTick ==
  /\ now' = now + GateStep
  /\ call' = [op |-> "tick"]
  /\ UNCHANGED <<gateFrame, settings, compared, streak, streakAt, result>>

CreateMasterPassword(password, slt) ==
  /\ settings' = create_master_password(settings, password, slt, now)
  /\ call' = [op |-> "create_master_password", password |-> password]
  /\ result' = TRUE
  /\ compared' = FALSE
  /\ streak' = 0
  /\ UNCHANGED <<gateFrame, now, streakAt>>

VerifyMasterPassword(password) ==
  LET v == verify_master_password(settings, password, now)
  IN /\ settings' = v.settings
     /\ compared' = v.compared
     /\ result' = v.ret
     /\ call' = [op |-> "verify_master_password", password |-> password]
     /\ streak' = Streak(settings, password, v.ret)
     /\ streakAt' = StreakAt(settings, password, now)
     /\ UNCHANGED <<gateFrame, now>>

\* change_master_password: verify the old password, then create the new.
\* change_master_password that skips the check of the old password.
ChangeMasterPassword_Unverified(old_password, new_password, slt) ==
  LET v == verify_master_password(settings, old_password, now)
  IN /\ settings' = create_master_password(v.settings, new_password, slt, now)
     /\ compared' = v.compared
     /\ result' = TRUE
     /\ call' = [op |-> "change_master_password", password |-> old_password]
     /\ streak' = Streak(settings, old_password, v.ret)
     /\ streakAt' = StreakAt(settings, old_password, now)
     /\ UNCHANGED <<gateFrame, now>>

ChangeMasterPassword(old_password, new_password, slt) ==
  LET v == verify_master_password(settings, old_password, now)
  IN /\ settings' = IF v.ret
                      THEN create_master_password(v.settings, new_password,
                                                  slt, now)
                      ELSE v.settings
     /\ compared' = v.compared
     /\ result' = v.ret
     /\ call' = [op |-> "change_master_password",
                 password |-> old_password]
     /\ streak' = Streak(settings, old_password, v.ret)
     /\ streakAt' = StreakAt(settings, old_password, now)
     /\ UNCHANGED <<gateFrame, now>>

\* disable_password_protection: verify, then password_required = False.
DisablePasswordProtection(password) ==
  LET v == verify_master_password(settings, password, now)
  IN /\ settings' = IF v.ret
                      THEN [v.settings EXCEPT !.password_required = FALSE]
                      ELSE v.settings
     /\ compared' = v.compared
     /\ result' = v.ret
     /\ call' = [op |-> "disable_password_protection",
                 password |-> password]
     /\ streak' = Streak(settings, password, v.ret)
     /\ streakAt' = StreakAt(settings, password, now)
     /\ UNCHANGED <<gateFrame, now>>

\* enable_password_protection is create_master_password.
EnablePasswordProtection(password, slt) ==
  /\ settings' = create_master_password(settings, password, slt, now)
  /\ call' = [op |-> "enable_password_protection", password |-> password]
  /\ result' = TRUE
  /\ compared' = FALSE
  /\ streak' = 0
  /\ UNCHANGED <<gateFrame, now, streakAt>>

\* is_locked: true inside the lockout period, and the lockout is reset once
\* the period is over.
IsLocked ==
  /\ result' = (settings.locked /\ now - settings.lockout_time < LockoutSeconds)
  /\ settings' = IF settings.locked
                    /\ ~(now - settings.lockout_time < LockoutSeconds)
                   THEN [settings EXCEPT !.locked = FALSE,
                                         !.failed_attempts = 0]
                   ELSE settings
  /\ call' = [op |-> "is_locked"]
  /\ UNCHANGED <<gateFrame, now, compared, streak, streakAt>>

\* should_auto_lock that already answers true when the timeout is reached.
should_auto_lock_AtTimeout(s, clock) ==
  IF ~s.password_required THEN FALSE
  ELSE clock - s.last_access >= s.auto_lock_timeout

\* should_auto_lock: reads the settings and the clock.
should_auto_lock(s, clock) ==
  IF ~s.password_required THEN FALSE
  ELSE clock - s.last_access > s.auto_lock_timeout

ShouldAutoLock ==
  /\ result' = should_auto_lock(settings, now)
  /\ call' = [op |-> "should_auto_lock"]
  /\ UNCHANGED <<gateFrame, now, settings, compared, streak, streakAt>>

UpdateLastAccess ==
  /\ settings' = [settings EXCEPT !.last_access = now]
  /\ result' = TRUE
  /\ call' = [op |-> "update_last_access"]
  /\ UNCHANGED <<gateFrame, now, compared, streak, streakAt>>

\* update_security_settings({"auto_lock_timeout": t}).
UpdateSecuritySettings(timeout) ==
  /\ settings' = [settings EXCEPT !.auto_lock_timeout = timeout]
  /\ result' = TRUE
  /\ call' = [op |-> "update_security_settings"]
  /\ UNCHANGED <<gateFrame, now, compared, streak, streakAt>>

NextGate ==
  \/ now < MaxGateTicks * GateStep /\ GateTick
  \/ \E password \in GatePasswords, slt \in GateSalts :
       CreateMasterPassword(password, slt)
  \/ \E password \in GatePasswords : VerifyMasterPassword(password)
  \/ \E old_password \in GatePasswords, new_password \in GatePasswords,
        slt \in GateSalts :
       ChangeMasterPassword(old_password, new_password, slt)
  \/ \E password \in GatePasswords : DisablePasswordProtection(password)
  \/ \E password \in GatePasswords, slt \in GateSalts :
       EnablePasswordProtection(password, slt)
  \/ IsLocked
  \/ ShouldAutoLock
  \/ UpdateLastAccess
  \/ \E timeout \in Timeouts : UpdateSecuritySettings(timeout)

SpecGate == Init /\ [][NextGate]_vars

----------------------------------------------------------------------------
(* wallet_core.py: the vault                                               *)

VaultPasswords == {"test_password", "wrong_password"}
VaultSalts == {"salt1", "salt2"}

\* Fernet(key).decrypt: the plaintext when the token was sealed with the
\* key, InvalidToken otherwise (the token's HMAC does not verify).  A file
\* that is not salt + token has no token to open.
FernetDecrypt(key, f) ==
  IF f.kind = "enc" /\ f.token.key = key
    THEN [ok |-> TRUE, plaintext |-> f.token.plaintext]
    ELSE [ok |-> FALSE]

\* The first 16 bytes of the file, which decrypt_wallet takes for the salt.
FileSalt(f) == IF f.kind = "enc" THEN f.salt ELSE "json"

\* decrypt_wallet with a cipher that does not authenticate: a wrong key
\* yields bytes that happen to parse, without an "accounts" entry.
decrypt_wallet_Unauthenticated(f, password) ==
  IF f.kind = "none" THEN [ok |-> FALSE]
  ELSE LET slt == FileSalt(f)
           key == DeriveKey(password, slt)
           opened == FernetDecrypt(key, f)
       IN [ok |-> TRUE,
           accounts |-> IF opened.ok THEN opened.plaintext.accounts ELSE <<>>,
           encryption_key |-> key,
           salt |-> slt]

\* decrypt_wallet: False when the file is missing or the token does not
\* open, else the accounts, key and salt to install.
decrypt_wallet(f, password) ==
  IF f.kind = "none" THEN [ok |-> FALSE]
  ELSE LET slt == FileSalt(f)
           key == DeriveKey(password, slt)
           opened == FernetDecrypt(key, f)
       IN IF ~opened.ok THEN [ok |-> FALSE]
          ELSE [ok |-> TRUE,
                accounts |-> opened.plaintext.accounts,
                encryption_key |-> key,
                salt |-> slt]

vaultFrame == <<now, sendVars, securityVars, syncVars, writable>>

\* encrypt_wallet: a fresh salt, the derived key, and the wallet saved
\* under it.
EncryptWallet(password, slt) ==
  /\ encryption_key' = DeriveKey(password, slt)
  /\ salt' = slt
  /\ is_encrypted' = TRUE
  /\ WriteFile(SavedFile(accounts, TRUE, encryption_key', slt),
               Saved(accounts, TRUE, encryption_key'))
  /\ call' = [op |-> "encrypt_wallet", password |-> password]
  /\ result' = TRUE
  /\ UNCHANGED <<accounts, vaultFrame>>

DecryptWallet(password) ==
  LET d == decrypt_wallet(file, password)
  IN /\ call' = [op |-> "decrypt_wallet", password |-> password]
     /\ result' = d.ok
     /\ IF d.ok
          THEN /\ accounts' = d.accounts
               /\ encryption_key' = d.encryption_key
               /\ salt' = d.salt
               /\ is_encrypted' = TRUE
          ELSE UNCHANGED <<accounts, cryptVars>>
     /\ UNCHANGED <<file, saved, vaultFrame>>

\* disable_encryption: nothing when the wallet is not encrypted, else the
\* wallet is saved as plain text.
DisableEncryption ==
  /\ call' = [op |-> "disable_encryption"]
  /\ result' = TRUE
  /\ IF ~is_encrypted
       THEN UNCHANGED <<cryptVars, file, saved>>
       ELSE /\ is_encrypted' = FALSE
            /\ encryption_key' = NoKey
            /\ salt' = None
            /\ WriteFile(SavedFile(accounts, FALSE, NoKey, None),
                         Saved(accounts, FALSE, NoKey))
  /\ UNCHANGED <<accounts, vaultFrame>>

\* save_wallet called by a client.
SaveWallet ==
  /\ Save(accounts)
  /\ call' = [op |-> "save_wallet"]
  /\ result' = writable
  /\ UNCHANGED <<accounts, cryptVars, vaultFrame>>

\* A new AleoWalletCore on the same file: __init__ and load_wallet.  A file
\* that parses as JSON gives the accounts; any other file marks the wallet
\* encrypted and leaves it empty until decrypt_wallet.
Reopen ==
  /\ accounts' = IF file.kind = "plain" THEN file.data.accounts ELSE <<>>
  /\ is_encrypted' = (file.kind \notin {"none", "plain"})
  /\ encryption_key' = NoKey
  /\ salt' = None
  /\ call' = [op |-> "load_wallet"]
  /\ result' = (file.kind = "plain")
  /\ UNCHANGED <<file, saved, vaultFrame>>

NextVault ==
  \/ \E seed \in Seeds :
       Len(accounts) < MaxAccounts /\ GenerateAccount(seed)
  \/ \E amount \in Amounts :
       /\ HistoryRoom(MaxVaultTx)
       /\ ReceiveTransaction(0, PeerAddress, amount, None)
  \/ \E password \in VaultPasswords, slt \in VaultSalts :
       EncryptWallet(password, slt)
  \/ \E password \in VaultPasswords : DecryptWallet(password)
  \/ DisableEncryption
  \/ SaveWallet
  \/ Reopen

SpecVault == Init /\ [][NextVault]_vars

----------------------------------------------------------------------------
(* wallet_core.py: the process dies inside save_wallet                     *)

\* Where save_wallet stands when the process dies: before open(), after
\* open() has truncated the file, after a part of the bytes reached the
\* disk, after all of them did.
CrashPoints == {"before_open", "opened", "writing", "written"}

\* The file a save_wallet interrupted at the point leaves, f being the
\* file before and new the file a complete save writes.
CrashedFile(f, new, point) ==
  CASE point = "before_open" -> f
    [] point = "opened" -> [kind |-> "torn", part |-> "empty"]
    [] point = "writing" -> [kind |-> "torn", part |-> "prefix"]
    [] point = "written" -> new

\* save_wallet interrupted at the point, then a new AleoWalletCore on the
\* file (__init__ and load_wallet, as in Reopen).
SaveWalletCrash(point) ==
  /\ file' = CrashedFile(file,
                         SavedFile(accounts, is_encrypted, encryption_key,
                                   salt),
                         point)
  /\ saved' = IF point = "before_open"
                THEN saved
                ELSE Saved(accounts, is_encrypted, encryption_key)
  /\ accounts' = IF file'.kind = "plain" THEN file'.data.accounts ELSE <<>>
  /\ is_encrypted' = (file'.kind \notin {"none", "plain"})
  /\ encryption_key' = NoKey
  /\ salt' = None
  /\ call' = [op |-> "save_wallet_crash", point |-> point]
  /\ result' = (file'.kind = "plain")
  /\ UNCHANGED vaultFrame

NextCrash ==
  \/ NextVault
  \/ \E point \in CrashPoints : SaveWalletCrash(point)

SpecCrash == Init /\ [][NextCrash]_vars

----------------------------------------------------------------------------
(* security.py: encrypt_data and decrypt_data                              *)

DataPasswords == {"pw1", "pw2"}
DataSalts == {"s1", "s2"}
IVs == {"iv1", "iv2"}

\* The UTF-8 bytes of "", "Hi" and sixteen letters "A".
Plaintexts == {<<>>, <<72, 105>>, [i \in 1 .. BlockSize |-> 65]}

\* pad_data: 1 to 16 bytes, each the number of bytes added.
pad_data(data) ==
  LET padding_size == BlockSize - (Len(data) % BlockSize)
  IN data \o [i \in 1 .. padding_size |-> padding_size]

\* unpad_data: data[:-data[-1]], the slice Python computes: empty when the
\* last byte is 0 or at least the length.
unpad_data(data) ==
  LET padding_size == data[Len(data)]
  IN IF padding_size = 0 \/ padding_size >= Len(data) THEN <<>>
     ELSE SubSeq(data, 1, Len(data) - padding_size)

\* bytes.decode('utf-8') on the byte strings of this model, where a byte
\* above 127 never continues a well-formed sequence.
Utf8Valid(data) == \A i \in 1 .. Len(data) : data[i] < 128

\* AES-CBC under a key and an IV.  Decryption under another key gives some
\* other byte string of the same length, here called garbage.
AesCbcEncrypt(key, iv, padded) == [key |-> key, iv |-> iv, padded |-> padded]
AesCbcDecrypt(key, iv, ciphertext, garbage) ==
  IF ciphertext.key = key /\ ciphertext.iv = iv
    THEN ciphertext.padded
    ELSE garbage

\* The garbage tried: a filler byte and a last byte.
GarbageFill == {65, 200}
GarbageLast == {0, 1, 20, 200}
Garbage(n) ==
  {[i \in 1 .. n |-> IF i = n THEN l ELSE g] :
     g \in GarbageFill, l \in GarbageLast}

\* derive_key_from_password: PBKDF2, which gives different keys for
\* different passwords or salts.
derive_key_from_password(password, slt) == <<password, slt>>

\* encrypt_data with a non-empty password: salt ++ iv ++ ciphertext.
encrypt_data(data, password, slt, iv) ==
  [kind |-> "data", salt |-> slt, iv |-> iv,
   ciphertext |-> AesCbcEncrypt(derive_key_from_password(password, slt), iv,
                                pad_data(data))]

\* decrypt_data with a non-empty password: decrypt, unpad, decode; the
\* only failure is the decoding of bytes that are not UTF-8.
decrypt_data(b, password, garbage) ==
  LET key == derive_key_from_password(password, b.salt)
      padded_data == AesCbcDecrypt(key, b.iv, b.ciphertext, garbage)
      data == unpad_data(padded_data)
  IN IF Utf8Valid(data)
       THEN [raised |-> FALSE, value |-> data]
       ELSE [raised |-> TRUE]

cipherFrame == <<ledgerVars, now, settings, compared, streak, streakAt,
                syncVars, writable>>

EncryptData(data, password, slt, iv) ==
  /\ blob' = encrypt_data(data, password, slt, iv)
  /\ call' = [op |-> "encrypt_data", password |-> password]
  /\ result' = [raised |-> FALSE]
  /\ UNCHANGED cipherFrame

DecryptData(password, garbage) ==
  /\ blob # NoBlob
  /\ call' = [op |-> "decrypt_data", password |-> password]
  /\ result' = decrypt_data(blob, password, garbage)
  /\ UNCHANGED <<blob, cipherFrame>>

NextCipher ==
  \/ \E data \in Plaintexts, password \in DataPasswords, slt \in DataSalts,
        iv \in IVs :
       EncryptData(data, password, slt, iv)
  \/ /\ blob # NoBlob
     /\ \E password \in DataPasswords :
          \E garbage \in Garbage(Len(blob.ciphertext.padded)) :
            DecryptData(password, garbage)

SpecCipher == Init /\ [][NextCipher]_vars

----------------------------------------------------------------------------
(* wallet_core.py and address_book.py: keys and account fields             *)

MaxKeyAccounts == 2     \* accounts a wallet with imported keys may hold

\* base64.b64decode(text + "=="): the bytes when the text is whole (excess
\* padding is ignored); a text cut to m characters gives the bytes of its
\* complete groups, and raises when m is one more than a multiple of 4.
b64decode(text) ==
  IF text.len = Base64Len(text.of.len)
    THEN [ok |-> TRUE, bytes |-> text.of]
  ELSE IF text.len % 4 = 1 THEN [ok |-> FALSE]
  ELSE [ok |-> TRUE,
        bytes |-> Bytes(<<"first", text.of.id>>, (text.len * 3) \div 4)]

\* The private keys a caller may import: those of the seeds, one with a
\* body cut to 41 characters, one with the prefix of a view key.
ImportKeys ==
  {private_key_of(seed) : seed \in Seeds}
    \cup {[pfx |-> "APrivateKey1", body |-> Prefix(b64encode(Seed("A1")), 41)],
          [pfx |-> "AViewKey1", body |-> b64encode(Seed("A1"))]}

\* import_account_from_private_key: the account built from the key, or
\* ValueError for a key that does not start with "APrivateKey1".
import_account_from_private_key(accs, private_key, clock) ==
  IF private_key.pfx # "APrivateKey1" THEN Raise("ValueError")
  ELSE LET decoded == b64decode(private_key.body)
           seed == IF decoded.ok THEN decoded.bytes
                   ELSE sha256(Bytes(<<"utf8", private_key>>,
                                     12 + private_key.body.len))
           view_key_seed == sha256(seed)
       IN [ok |-> TRUE,
           account |-> [name |-> <<"Imported Account", Len(accs) + 1>>,
                        private_key |-> private_key,
                        view_key |-> view_key_of(view_key_seed),
                        address |-> address_of(sha256(view_key_seed)),
                        created_at |-> clock,
                        balance |-> 0,
                        transactions |-> <<>>,
                        contacts |-> <<>>]]

\* The updates dictionaries a caller may pass to update_account.
UpdateDicts ==
  {[name |-> "Savings"],
   [name |-> "Savings", private_key |-> private_key_of(Seed("A2"))],
   [address |-> PeerAddress]}

\* dict.update
DictUpdate(d, u) ==
  [k \in DOMAIN d \cup DOMAIN u |-> IF k \in DOMAIN u THEN u[k] ELSE d[k]]

\* update_account that passes the updates on as they are.
update_account_Unfiltered(accs, index, updates) ==
  IF 0 <= index /\ index < Len(accs)
    THEN [accs EXCEPT ![index + 1] = DictUpdate(@, updates)]
    ELSE accs

\* update_account: the entries other than private_key and address are
\* written into the account; nothing for an invalid index.
update_account(accs, index, updates) ==
  IF 0 <= index /\ index < Len(accs)
    THEN LET safe_keys == DOMAIN updates \ {"private_key", "address"}
             safe_updates == [k \in safe_keys |-> updates[k]]
         IN [accs EXCEPT ![index + 1] = DictUpdate(@, safe_updates)]
    ELSE accs

keysFrame == <<cryptVars, now, sendVars, securityVars, syncVars, writable>>

\* KeyManager.validate_private_key and validate_view_key: the prefix and a
\* least length of the whole string.
validate_private_key(private_key) ==
  /\ private_key.pfx = "APrivateKey1"
  /\ 12 + private_key.body.len >= MinPrivateKeyLen

validate_view_key(view_key) ==
  /\ view_key.pfx = "AViewKey1"
  /\ 9 + view_key.body.len >= MinViewKeyLen

\* KeyManager.generate_new_key_pair: keys that are not kept anywhere.
GenerateNewKeyPair(seed) ==
  /\ call' = [op |-> "generate_new_key_pair"]
  /\ result' = generate_new_key_pair(seed)
  /\ UNCHANGED <<accounts, file, saved, keysFrame>>

ImportAccount(private_key) ==
  LET r == import_account_from_private_key(accounts, private_key, now)
  IN /\ call' = [op |-> "import_account_from_private_key",
                 private_key |-> private_key]
     /\ IF r.ok
          THEN /\ accounts' = Append(accounts, r.account)
               /\ Save(accounts')
               /\ result' = r.account
          ELSE /\ result' = r
               /\ UNCHANGED <<accounts, file, saved>>
     /\ UNCHANGED keysFrame

UpdateAccount(index, updates) ==
  /\ accounts' = update_account(accounts, index, updates)
  /\ IF 0 <= index /\ index < Len(accounts)
       THEN Save(accounts')
       ELSE UNCHANGED <<file, saved>>
  /\ call' = [op |-> "update_account", index |-> index,
              names |-> DOMAIN updates]
  /\ result' = (0 <= index /\ index < Len(accounts))
  /\ UNCHANGED keysFrame

\* KeyManager.export_private_key over AleoWalletCore.export_private_key:
\* the key of the account, marked ENCRYPTED: when a password is given;
\* ValueError for an invalid index.  Neither reads the security manager.
ExportPasswords == {None, "export_pw"}
export_private_key(accs, account_index, password) ==
  IF 0 <= account_index /\ account_index < Len(accs)
    THEN [ok |-> TRUE,
          private_key |-> accs[account_index + 1].private_key,
          encrypted |-> (password # None)]
    ELSE Raise("ValueError")

ExportPrivateKey(account_index, password) ==
  /\ call' = [op |-> "export_private_key", account_index |-> account_index]
  /\ result' = export_private_key(accounts, account_index, password)
  /\ UNCHANGED <<accounts, file, saved, keysFrame>>

NextKeys ==
  \/ \E seed \in Seeds :
       Len(accounts) < MaxKeyAccounts /\ GenerateAccount(seed)
  \/ \E seed \in Seeds : GenerateNewKeyPair(seed)
  \/ \E private_key \in ImportKeys :
       Len(accounts) < MaxKeyAccounts /\ ImportAccount(private_key)
  \/ \E index \in 0 .. MaxKeyAccounts, updates \in UpdateDicts :
       UpdateAccount(index, updates)
  \/ \E account_index \in 0 .. MaxKeyAccounts, password \in ExportPasswords :
       ExportPrivateKey(account_index, password)

SpecKeys == Init /\ [][NextKeys]_vars

\* The same wallet behind a security manager.
NextGatedKeys ==
  \/ \E seed \in Seeds :
       Len(accounts) < MaxAccounts /\ GenerateAccount(seed)
  \/ \E account_index \in AccountIndices, password \in ExportPasswords :
       ExportPrivateKey(account_index, password)
  \/ now < MaxGateTicks * GateStep /\ GateTick
  \/ \E password \in GatePasswords, slt \in GateSalts :
       CreateMasterPassword(password, slt)
  \/ \E password \in GatePasswords : VerifyMasterPassword(password)

SpecGatedKeys == Init /\ [][NextGatedKeys]_vars

----------------------------------------------------------------------------
(* address_book.py: AddressBookManager                                     *)

MaxContacts == 2        \* contacts the accounts may hold together
BookClock == 1          \* what time.time() reads while the book is used

\* Strings that are searched are sequences of characters.
Alice == <<"A", "l", "i", "c", "e">>
ALICE == <<"A", "L", "I", "C", "E">>
Bob == <<"B", "o", "b">>
ContactNames == {Alice, Bob}
Queries == {ALICE, <<"o", "b">>, <<"1">>}

\* str.lower on the characters in use.
LowerChar(c) ==
  CASE c = "A" -> "a" [] c = "B" -> "b" [] c = "C" -> "c" [] c = "E" -> "e"
    [] c = "I" -> "i" [] c = "L" -> "l" [] OTHER -> c
Lower(str) == [i \in 1 .. Len(str) |-> LowerChar(str[i])]

\* q in str
Contains(str, q) ==
  \E i \in 0 .. Len(str) - Len(q) : SubSeq(str, i + 1, i + Len(q)) = q

\* "aleo1" followed by the characters of the tag.
ContactAddress(tag) == Address("aleo1", 5 + Len(tag), tag)
AddressString(address) == <<"a", "l", "e", "o", "1">> \o address.tag

\* "aleo1alice", and addresses of 63 characters.
AliceAddress == ContactAddress(<<"a", "l", "i", "c", "e">>)
LongAddress(c) == ContactAddress([i \in 1 .. PeerAddressLen - 5 |-> c])
ContactAddresses == {AliceAddress, LongAddress("q")}

\* AleoWalletCore.get_contacts
get_contacts(accs, account_index) ==
  IF 0 <= account_index /\ account_index < Len(accs)
    THEN accs[account_index + 1].contacts
    ELSE <<>>

\* AddressBookManager.add_contact over AleoWalletCore.add_contact: ValueError
\* for an address validate_address refuses, False for an invalid index,
\* else the contact is appended.
add_contact(accs, account_index, name, address, description, clock) ==
  IF ~validate_address(address) THEN Raise("ValueError")
  ELSE IF ~(0 <= account_index /\ account_index < Len(accs))
    THEN [ok |-> TRUE, ret |-> FALSE, accounts |-> accs]
  ELSE IF address.pfx # "aleo1"
    THEN [ok |-> TRUE, ret |-> FALSE, accounts |-> accs]
  ELSE [ok |-> TRUE, ret |-> TRUE,
        accounts |->
          [accs EXCEPT ![account_index + 1].contacts =
             Append(@, [name |-> name,
                        address |-> address,
                        description |-> description,
                        created_at |-> clock,
                        last_used |-> 0])]]

\* remove_contact: del contacts[contact_index].
remove_contact(accs, account_index, contact_index) ==
  LET contacts == get_contacts(accs, account_index)
  IN IF 0 <= account_index /\ account_index < Len(accs)
        /\ 0 <= contact_index /\ contact_index < Len(contacts)
       THEN [accs EXCEPT ![account_index + 1].contacts =
               SubSeq(contacts, 1, contact_index)
                 \o SubSeq(contacts, contact_index + 2, Len(contacts))]
       ELSE accs

\* update_contact that writes every entry of the updates.
update_contact_Unfiltered(accs, account_index, contact_index, updates) ==
  LET contacts == get_contacts(accs, account_index)
  IN IF 0 <= account_index /\ account_index < Len(accs)
        /\ 0 <= contact_index /\ contact_index < Len(contacts)
       THEN [accs EXCEPT ![account_index + 1].contacts[contact_index + 1] =
               DictUpdate(@, updates)]
       ELSE accs

\* update_contact: every entry of the updates but "address" is written
\* into the contact.
update_contact(accs, account_index, contact_index, updates) ==
  LET contacts == get_contacts(accs, account_index)
  IN IF 0 <= account_index /\ account_index < Len(accs)
        /\ 0 <= contact_index /\ contact_index < Len(contacts)
       THEN LET keys == DOMAIN updates \ {"address"}
            IN [accs EXCEPT
                  ![account_index + 1].contacts[contact_index + 1] =
                     DictUpdate(@, [k \in keys |-> updates[k]])]
       ELSE accs

\* search_contacts: the contacts whose name or address holds the query,
\* letter case apart, in the order of the list.
search_contacts(accs, account_index, query) ==
  LET Matches(contact) ==
        \/ Contains(Lower(contact.name), Lower(query))
        \/ Contains(Lower(AddressString(contact.address)), Lower(query))
  IN SelectSeq(get_contacts(accs, account_index), Matches)

\* The updates dictionaries a caller may pass to update_contact.
ContactUpdates ==
  {[name |-> Bob],
   [description |-> "Colleague", address |-> LongAddress("z")],
   [name |-> Alice, address |-> AliceAddress]}

bookFrame == <<cryptVars, now, sendVars, securityVars, syncVars, writable>>

\* The contact lists of the wallet hold fewer than bound entries together.
RECURSIVE TotalContacts(_)
TotalContacts(accs) ==
  IF accs = <<>> THEN 0
  ELSE Len(Head(accs).contacts) + TotalContacts(Tail(accs))

AddContact(account_index, name, address, description) ==
  LET r == add_contact(accounts, account_index, name, address, description,
                       now)
  IN /\ call' = [op |-> "add_contact"]
     /\ IF r.ok /\ r.ret
          THEN /\ accounts' = r.accounts
               /\ Save(accounts')
               /\ result' = [ok |-> TRUE, err |-> None, ret |-> TRUE]
          ELSE /\ result' = IF r.ok
                              THEN [ok |-> TRUE, err |-> None, ret |-> FALSE]
                              ELSE r
               /\ UNCHANGED <<accounts, file, saved>>
     /\ UNCHANGED bookFrame

RemoveContact(account_index, contact_index) ==
  LET removed == (0 <= account_index /\ account_index < Len(accounts)
                  /\ 0 <= contact_index
                  /\ contact_index < Len(get_contacts(accounts, account_index)))
  IN /\ accounts' = remove_contact(accounts, account_index, contact_index)
     /\ IF removed THEN Save(accounts') ELSE UNCHANGED <<file, saved>>
     /\ call' = [op |-> "remove_contact"]
     /\ result' = removed
     /\ UNCHANGED bookFrame

UpdateContact(account_index, contact_index, updates) ==
  LET found == (0 <= account_index /\ account_index < Len(accounts)
                /\ 0 <= contact_index
                /\ contact_index < Len(get_contacts(accounts, account_index)))
  IN /\ accounts' = update_contact(accounts, account_index, contact_index,
                                   updates)
     /\ IF found THEN Save(accounts') ELSE UNCHANGED <<file, saved>>
     /\ call' = [op |-> "update_contact"]
     /\ result' = found
     /\ UNCHANGED bookFrame

\* update_last_used: update_contact with {"last_used": int(time.time())}.
UpdateLastUsed(account_index, contact_index) ==
  LET found == (0 <= account_index /\ account_index < Len(accounts)
                /\ 0 <= contact_index
                /\ contact_index < Len(get_contacts(accounts, account_index)))
  IN /\ accounts' = update_contact(accounts, account_index, contact_index,
                                   [last_used |-> now])
     /\ IF found THEN Save(accounts') ELSE UNCHANGED <<file, saved>>
     /\ call' = [op |-> "update_last_used"]
     /\ result' = found
     /\ UNCHANGED bookFrame

SearchContacts(account_index, query) ==
  /\ call' = [op |-> "search_contacts"]
  /\ result' = search_contacts(accounts, account_index, query)
  /\ UNCHANGED <<accounts, file, saved, bookFrame>>

\* The address book is used at one reading of the clock, after the
\* construction of the wallet.
InitBook ==
  /\ InitWallet
  /\ InitSend
  /\ InitSecurity
  /\ InitSync
  /\ now = BookClock
  /\ call = [op |-> "init"]
  /\ result = None

NextBook ==
  \/ \E seed \in Seeds :
       Len(accounts) < MaxAccounts /\ GenerateAccount(seed)
  \/ \E account_index \in AccountIndices, name \in ContactNames,
        address \in ContactAddresses :
       /\ TotalContacts(accounts) < MaxContacts
       /\ AddContact(account_index, name, address, "Friend")
  \/ \E account_index \in AccountIndices, contact_index \in 0 .. MaxContacts :
       RemoveContact(account_index, contact_index)
  \/ \E account_index \in AccountIndices, contact_index \in 0 .. MaxContacts,
        updates \in ContactUpdates :
       UpdateContact(account_index, contact_index, updates)
  \/ \E account_index \in AccountIndices, contact_index \in 0 .. MaxContacts :
       UpdateLastUsed(account_index, contact_index)
  \/ \E account_index \in AccountIndices, query \in Queries :
       SearchContacts(account_index, query)

SpecBook == InitBook /\ [][NextBook]_vars

----------------------------------------------------------------------------
(* Ledger mutations while the wallet file can and cannot be written.       *)

\* del self.accounts[index]
delete_account(accs, index) ==
  IF 0 <= index /\ index < Len(accs)
    THEN SubSeq(accs, 1, index) \o SubSeq(accs, index + 2, Len(accs))
    ELSE accs

DeleteAccount(index) ==
  /\ accounts' = delete_account(accounts, index)
  /\ IF 0 <= index /\ index < Len(accounts)
       THEN Save(accounts')
       ELSE UNCHANGED <<file, saved>>
  /\ call' = [op |-> "delete_account"]
  /\ result' = (0 <= index /\ index < Len(accounts))
  /\ UNCHANGED keysFrame

\* The directory of the wallet file turns read-only, or the disk fills up,
\* and back.
SetWritable(w) ==
  /\ w # writable
  /\ writable' = w
  /\ call' = [op |-> "set_writable"]
  /\ UNCHANGED <<walletVars, now, sendVars, result, securityVars, syncVars>>

NextDisk ==
  \/ \E w \in BOOLEAN : SetWritable(w)
  \/ \E seed \in Seeds :
       Len(accounts) < MaxAccounts /\ GenerateAccount(seed)
  \/ \E account_index \in AccountIndices, amount \in Amounts :
       /\ HistoryRoom(MaxVaultTx)
       /\ ReceiveTransaction(account_index, PeerAddress, amount, None)
  \/ \E account_index \in AccountIndices, name \in ContactNames,
        address \in ContactAddresses :
       /\ TotalContacts(accounts) < MaxContacts
       /\ AddContact(account_index, name, address, "Friend")
  \/ \E index \in AccountIndices, updates \in UpdateDicts :
       UpdateAccount(index, updates)
  \/ \E index \in AccountIndices : DeleteAccount(index)
  \/ SaveWallet

SpecDisk == Init /\ [][NextDisk]_vars

----------------------------------------------------------------------------
(* Sync passes: sync_with_blockchain called by the background thread and   *)
(* by a manual caller. Each caller stands at one of                        *)
(*   idle     not inside sync_with_blockchain                              *)
(*   test     about to read sync_in_progress                               *)
(*   set      read it as False, about to write True                        *)
(*   loop     in the for loop, before _sync_account(i) or past the end     *)
(*   account  inside _sync_account(i)                                      *)
(* i is the loop variable and n the len(accounts) that range() was given.  *)
(* The except branch is not a step: _update_blockchain_info, _sync_account *)
(* and _notify_sync_complete catch what their calls raise.                 *)

sync_interval == 60
MaxSyncTicks == 2   \* sync intervals the clock runs for

\* The time of the first look at the clock: time.time() is far more than a
\* sync interval past last_sync_time's initial 0.
InitSyncClock ==
  /\ InitWallet
  /\ InitSend
  /\ InitSecurity
  /\ InitSync
  /\ now = sync_interval
  /\ call = [op |-> "init"]
  /\ result = FALSE

syncFrame == <<walletVars, now, sendVars, securityVars, is_connected,
              writable>>

\* time.sleep in the background loop, or the user waiting: the clock moves
\* on by a sync interval.
SyncTick ==
  /\ now' = now + sync_interval
  /\ call' = [op |-> "tick"]
  /\ UNCHANGED <<walletVars, sendVars, result, securityVars, syncVars, writable>>

\* The call of sync_with_blockchain. The background thread calls it when
\* current_time - last_sync_time >= sync_interval, a manual caller at will.
CallSync(c) ==
  /\ syncing[c].at = "idle"
  /\ c = "background" => now - last_sync_time >= sync_interval
  /\ syncing' = [syncing EXCEPT ![c] = [at |-> "test", i |-> 0, n |-> 0,
                                          failed |-> FALSE]]
  /\ call' = [op |-> "sync_with_blockchain"]
  /\ UNCHANGED <<syncFrame, result, sync_in_progress, last_sync_time>>

\* if self.sync_in_progress: return False
TestFlag(c) ==
  /\ syncing[c].at = "test"
  /\ IF sync_in_progress
       THEN /\ syncing' = [syncing EXCEPT ![c] = NotSyncing]
            /\ result' = FALSE
       ELSE /\ syncing' = [syncing EXCEPT ![c].at = "set"]
            /\ UNCHANGED result
  /\ call' = [op |-> "test_flag"]
  /\ UNCHANGED <<syncFrame, sync_in_progress, last_sync_time>>

\* self.sync_in_progress = True, then _update_blockchain_info() and the
\* range(len(accounts)) of the for loop. The chain queries of
\* _update_blockchain_info answer ("ok"), answer with an error or do not
\* get through, which _make_rpc_request turns into the default value
\* ("empty"), or raise, which _update_blockchain_info catches and prints.
SetFlag(c, info) ==
  /\ syncing[c].at = "set"
  /\ sync_in_progress' = TRUE
  /\ syncing' = [syncing EXCEPT ![c] =
                   [at |-> "loop", i |-> 0, n |-> Len(accounts),
                    failed |-> info # "ok"]]
  /\ call' = [op |-> "set_flag"]
  /\ UNCHANGED <<syncFrame, result, last_sync_time>>

\* The for loop calls _sync_account(i).
EnterAccount(c) ==
  /\ syncing[c].at = "loop"
  /\ syncing[c].i < syncing[c].n
  /\ syncing' = [syncing EXCEPT ![c].at = "account"]
  /\ call' = [op |-> "enter_account"]
  /\ UNCHANGED <<syncFrame, result, sync_in_progress, last_sync_time>>

\* A fetch of _sync_account's loop failed: one of the listed ids that the
\* ledger does not know was answered with an error or not at all, or a
\* fetch raised and ended the loop.
FetchFailed(accs, account_index, tx_ids, outcome) ==
  \/ SyncLoop(accs, account_index, tx_ids, outcome).raised
  \/ \E k \in 1 .. Len(tx_ids) :
       /\ get_transaction(accs, account_index, tx_ids[k]) = NoTx
       /\ outcome[tx_ids[k]] # "ok"

\* _sync_account(i) runs and returns; the loop moves to i + 1.
LeaveAccount(c, tx_ids, outcome) ==
  /\ syncing[c].at = "account"
  /\ SyncAccount(syncing[c].i, tx_ids, outcome)
  /\ syncing' = [syncing EXCEPT ![c] =
                   [at |-> "loop", i |-> syncing[c].i + 1, n |-> syncing[c].n,
                    failed |-> \/ syncing[c].failed
                               \/ FetchFailed(accounts, syncing[c].i,
                                               tx_ids, outcome)]]
  /\ UNCHANGED <<sync_in_progress, last_sync_time, is_connected>>

\* After the loop: last_sync_time = time.time(), the callbacks, then
\* sync_in_progress = False and return True.
FinishSync(c) ==
  /\ syncing[c].at = "loop"
  /\ syncing[c].i = syncing[c].n
  /\ last_sync_time' = now
  /\ sync_in_progress' = FALSE
  /\ syncing' = [syncing EXCEPT ![c] = NotSyncing]
  /\ call' = [op |-> "sync_done"]
  /\ result' = TRUE
  /\ UNCHANGED syncFrame

\* check_network_status: the latest-height query answers ("ok"), or
\* _make_rpc_request catches a transport error or gets an error response and
\* get_latest_height answers 0 ("empty"), or the query raises. Only a raise
\* reaches the except branch.
CheckNetworkStatus(outcome) ==
  /\ is_connected' = (outcome # "raise")
  /\ result' = (outcome # "raise")
  /\ call' = [op |-> "check_network_status", outcome |-> outcome]
  /\ UNCHANGED <<walletVars, now, sendVars, securityVars, sync_in_progress,
                 last_sync_time, syncing, writable>>

NextSync ==
  \/ now < MaxSyncTicks * sync_interval /\ SyncTick
  \/ \E seed \in Seeds :
       Len(accounts) < MaxAccounts /\ GenerateAccount(seed)
  \/ \E c \in SyncCallers : CallSync(c) /\ UNCHANGED sync_thread
  \/ \E c \in SyncCallers : TestFlag(c) /\ UNCHANGED sync_thread
  \/ \E c \in SyncCallers, info \in FetchOutcomes :
       SetFlag(c, info) /\ UNCHANGED sync_thread
  \/ \E c \in SyncCallers : EnterAccount(c) /\ UNCHANGED sync_thread
  \/ \E c \in SyncCallers :
       /\ syncing[c].at = "account"
       /\ \E tx_ids \in IdLists(get_account(accounts, syncing[c].i).address) :
          \E outcome \in Outcomes(tx_ids) :
            /\ TotalTx(accounts) + Len(tx_ids) <= MaxTx
            /\ LeaveAccount(c, tx_ids, outcome)
            /\ UNCHANGED sync_thread
  \/ \E c \in SyncCallers : FinishSync(c) /\ UNCHANGED sync_thread
  \/ \E outcome \in FetchOutcomes :
       CheckNetworkStatus(outcome) /\ UNCHANGED sync_thread

SpecSync == InitSyncClock /\ [][NextSync]_vars

----------------------------------------------------------------------------
(* The thread of start_sync_thread: while True, with the body in a try     *)
(* whose handler prints and sleeps.                                        *)

MaxLoopTx == 1      \* transactions the syncs of the loop may ingest
MaxLoopTicks == 1   \* sync intervals the clock runs for beside the loop

\* The handler of sync_with_blockchain without its reset of the flag.
RaiseInSync_StaleFlag(c) ==
  /\ syncing[c].at = "account"
  /\ syncing' = [syncing EXCEPT ![c] = NotSyncing]
  /\ call' = [op |-> "sync_failed"]
  /\ result' = FALSE
  /\ UNCHANGED <<syncFrame, last_sync_time, sync_in_progress>>

\* An exception reaches the except branch of sync_with_blockchain: what
\* _sync_account does before its own try raises (the height the node
\* answered is not a number, the account has no address).  The handler
\* prints, resets the flag and returns False.
RaiseInSync(c) ==
  /\ syncing[c].at = "account"
  /\ sync_in_progress' = FALSE
  /\ syncing' = [syncing EXCEPT ![c] = NotSyncing]
  /\ call' = [op |-> "sync_failed"]
  /\ result' = FALSE
  /\ UNCHANGED <<syncFrame, last_sync_time>>

\* The statements of sync_with_blockchain after its call.
SyncStep(c) ==
  \/ TestFlag(c)
  \/ \E info \in FetchOutcomes : SetFlag(c, info)
  \/ EnterAccount(c)
  \/ /\ syncing[c].at = "account"
     /\ \E tx_ids \in IdLists(get_account(accounts, syncing[c].i).address) :
          /\ TotalTx(accounts) + Len(tx_ids) <= MaxLoopTx
          /\ \E outcome \in Outcomes(tx_ids) :
               LeaveAccount(c, tx_ids, outcome)
  \/ FinishSync(c)
  \/ RaiseInSync(c)

loopFrame == <<walletVars, now, sendVars, securityVars, sync_in_progress,
               last_sync_time, syncing, is_connected, writable, result>>

\* The top of the body: sync_with_blockchain() is called when the last
\* sync is a sync interval old.
LoopTop ==
  /\ sync_thread = "top"
  /\ IF now - last_sync_time >= sync_interval
       THEN CallSync("background") /\ sync_thread' = "sync"
       ELSE /\ sync_thread' = "status"
            /\ call' = [op |-> "sync_thread"]
            /\ UNCHANGED loopFrame

\* sync_with_blockchain runs and returns to the body.
LoopSync ==
  /\ sync_thread = "sync"
  /\ SyncStep("background")
  /\ sync_thread' = IF syncing'["background"].at = "idle" THEN "status"
                    ELSE "sync"

\* self.check_network_status()
LoopStatus(outcome) ==
  /\ sync_thread = "status"
  /\ sync_thread' = "sleep"
  /\ CheckNetworkStatus(outcome)

\* A statement of the body raises an Exception that nothing below it
\* catches: the thread dies.
LoopRaise_Uncaught ==
  /\ sync_thread \in {"top", "status", "sleep"}
  /\ sync_thread' = "dead"
  /\ call' = [op |-> "sync_thread_raise"]
  /\ UNCHANGED loopFrame

\* A statement of the body raises an Exception: the handler of the thread
\* prints it and sleeps for 30 seconds.
LoopRaise ==
  /\ sync_thread \in {"top", "status", "sleep"}
  /\ sync_thread' = "backoff"
  /\ call' = [op |-> "sync_thread_raise"]
  /\ UNCHANGED loopFrame

\* time.sleep(5) of the body or time.sleep(30) of the handler returns, and
\* while True starts the next iteration.
LoopSleep ==
  /\ sync_thread \in {"sleep", "backoff"}
  /\ sync_thread' = "top"
  /\ call' = [op |-> "sync_thread_sleep", after |-> sync_thread]
  /\ UNCHANGED loopFrame

LoopProgress ==
  \/ LoopTop
  \/ LoopSync
  \/ \E outcome \in FetchOutcomes : LoopStatus(outcome)
  \/ LoopSleep

NextLoop ==
  \/ now < (1 + MaxLoopTicks) * sync_interval /\ SyncTick
  \/ Len(accounts) < MaxAccounts /\ GenerateAccount(Seed("A1"))
  \/ LoopProgress
  \/ LoopRaise

SpecLoop ==
  /\ InitSyncClock
  /\ [][NextLoop]_vars
  /\ WF_<<sync_thread, syncing>>(LoopProgress)

----------------------------------------------------------------------------
(* Two callers of sync_with_blockchain, each of which runs on once it has  *)
(* called.                                                                 *)

CallerProgress(c) == SyncStep(c) /\ UNCHANGED sync_thread

NextFlag ==
  \/ now < (1 + MaxLoopTicks) * sync_interval /\ SyncTick
  \/ Len(accounts) < MaxAccounts /\ GenerateAccount(Seed("A1"))
  \/ \E c \in SyncCallers : CallSync(c) /\ UNCHANGED sync_thread
  \/ \E c \in SyncCallers : CallerProgress(c)

SpecFlag ==
  /\ InitSyncClock
  /\ [][NextFlag]_vars
  /\ \A c \in SyncCallers : WF_syncing(CallerProgress(c))

----------------------------------------------------------------------------
(* Ingestion: receipts and account syncs, with room in the history for     *)
(* every transaction the chain holds for an address.                       *)

MaxIngest == 3   \* transactions in the histories of the wallet

NextIngest ==
  \/ \E seed \in Seeds :
       Len(accounts) < MaxAccounts /\ GenerateAccount(seed)
  \/ now < MaxClock /\ Tick
  \/ \E account_index \in AccountIndices, amount \in Amounts :
       /\ HistoryRoom(MaxIngest)
       /\ ReceiveTransaction(account_index, PeerAddress, amount, None)
  \/ \E account_index \in 0 .. Len(accounts) - 1 :
       \E tx_ids \in IdLists(get_account(accounts, account_index).address) :
         \E outcome \in Outcomes(tx_ids) :
           /\ TotalTx(accounts) + Len(tx_ids) <= MaxIngest
           /\ SyncAccount(account_index, tx_ids, outcome)
           /\ UNCHANGED syncVars

SpecIngest == Init /\ [][NextIngest]_vars

----------------------------------------------------------------------------
(* The monitor thread statement by statement, while accounts are deleted.  *)
(* The thread holds the index it was started with; between its loop        *)
(* finding the transaction and its write of the block height lies the      *)
(* query of get_latest_height.                                             *)

MaxWatchedAccounts == 2   \* accounts of the wallet whose threads are watched
MaxWatchedTx == 3         \* transactions in its histories

Without(seq, m) ==
  [j \in 1 .. Len(seq) - 1 |-> IF j < m THEN seq[j] ELSE seq[j + 1]]

\* The position of the account with the address, 0 when it is gone.
RECURSIVE Holder(_, _, _)
Holder(accs, address, k) ==
  IF k > Len(accs) THEN 0
  ELSE IF accs[k].address = address THEN k
  ELSE Holder(accs, address, k + 1)

\* update_transaction_status(account_index, transaction_id, Confirmed) and
\* the loop over get_transactions(account_index) up to the match: the
\* thread ends when no transaction at the index has the id, else it holds
\* that dict and its position i.
MonitorConfirm(m) ==
  LET account_index == monitors[m].account_index
      transaction_id == monitors[m].transaction_id
      confirmed == update_transaction_status(accounts, account_index,
                                             transaction_id, STATUS_CONFIRMED)
      txs == get_transactions(confirmed, account_index)
      k == FirstWithId(txs, transaction_id, 1)
  IN /\ m \in 1 .. Len(monitors)
     /\ monitors[m].i = 0
     /\ accounts' = confirmed
     /\ IF k = 0 THEN UNCHANGED <<file, saved>> ELSE Save(accounts')
     /\ monitors' =
          IF k = 0 THEN Without(monitors, m)
          ELSE [monitors EXCEPT
                  ![m].i = k,
                  ![m].depth = Len(txs) + 1 - k,
                  ![m].held = get_account(confirmed, account_index).address]
     /\ call' = [op |-> "monitor"]
     /\ result' = [ok |-> TRUE, err |-> None]
     /\ UNCHANGED <<cryptVars, now, pc, pending, securityVars, syncVars, writable>>

\* tx["block_height"] = latest_height on the dict the thread holds, which
\* changes it wherever it is still listed (entries are inserted in front,
\* so it keeps its position from the oldest entry).
SetHeight(accs, w, latest_height) ==
  LET h == Holder(accs, w.held, 1)
  IN IF h = 0 \/ w.depth > Len(accs[h].transactions) THEN accs
     ELSE [accs EXCEPT
             ![h].transactions[Len(accs[h].transactions) + 1 - w.depth]
                .block_height = latest_height]

\* The dict the thread holds after SetHeight.  Once its account is deleted
\* only the thread refers to it: status and height are what the thread
\* wrote, which is all that is read of it.
HeldTx(accs, w, latest_height) ==
  LET h == Holder(accs, w.held, 1)
  IN IF h = 0 \/ w.depth > Len(accs[h].transactions)
       THEN [status |-> STATUS_CONFIRMED, block_height |-> latest_height,
             transaction_id |-> w.transaction_id, type |-> None,
             amount |-> 0, fee |-> 0]
       ELSE accs[h].transactions[Len(accs[h].transactions) + 1 - w.depth]

\* self.wallet_core.accounts[account_index]["transactions"][i] = tx and
\* save_wallet: the account now at the index takes the dict at position i;
\* an index or a position that no longer exists raises IndexError out of
\* the thread.
MonitorRecord(m, latest_height) ==
  LET w == monitors[m]
      marked == SetHeight(accounts, w, latest_height)
      fits == /\ ValidIndex(marked, w.account_index)
              /\ w.i <= Len(marked[w.account_index + 1].transactions)
  IN /\ m \in 1 .. Len(monitors)
     /\ w.i > 0
     /\ IF fits
          THEN /\ accounts' =
                    [marked EXCEPT ![w.account_index + 1].transactions[w.i] =
                                      HeldTx(marked, w, latest_height)]
               /\ Save(accounts')
               /\ result' = [ok |-> TRUE, err |-> None]
          ELSE /\ accounts' = marked
               /\ result' = Raise("IndexError")
               /\ UNCHANGED <<file, saved>>
     /\ monitors' = Without(monitors, m)
     /\ call' = [op |-> "monitor"]
     /\ UNCHANGED <<cryptVars, now, pc, pending, securityVars, syncVars, writable>>

\* os.urandom never yields the address of an account a thread still refers
\* to.
Unwatched(seed) ==
  \A m \in 1 .. Len(monitors) :
    /\ generate_new_key_pair(seed).address # monitors[m].owner
    /\ generate_new_key_pair(seed).address # monitors[m].held

NextMonitor ==
  \/ now < MaxClock /\ Tick
  \/ \E seed \in Seeds :
       /\ Len(accounts) < MaxWatchedAccounts
       /\ Unwatched(seed)
       /\ GenerateAccount(seed)
  \/ \E account_index \in 0 .. MaxWatchedAccounts - 1, amount \in Amounts :
       /\ HistoryRoom(MaxWatchedTx)
       /\ ValidIndex(accounts, account_index)
       /\ ReceiveTransaction(account_index, PeerAddress, amount, None)
  \/ \E account_index \in 0 .. MaxWatchedAccounts - 1,
        amount \in SendAmounts :
       /\ HistoryRoom(MaxWatchedTx)
       /\ SendTransaction(account_index, PeerAddress, amount, <<>>)
  \/ \E index \in 0 .. MaxWatchedAccounts - 1 : DeleteAccount(index)
  \/ \E m \in 1 .. Len(monitors) : MonitorConfirm(m)
  \/ \E m \in 1 .. Len(monitors), latest_height \in LatestHeights :
       MonitorRecord(m, latest_height)

SpecMonitor == Init /\ [][NextMonitor]_vars

----------------------------------------------------------------------------
(* Sends and receipts on accounts that are never deleted, with every       *)
(* monitor thread scheduled: a thread that has been started runs.          *)

MaxLiveTx == 4   \* transactions in the histories of the wallet

RunMonitor ==
  \E m \in 1 .. Len(monitors), latest_height \in LatestHeights :
    Monitor(m, latest_height)

NextLive ==
  \/ now < MaxClock /\ Tick
  \/ \E seed \in Seeds :
       Len(accounts) < MaxAccounts /\ GenerateAccount(seed)
  \/ \E account_index \in 0 .. MaxAccounts - 1, amount \in Amounts :
       /\ HistoryRoom(MaxLiveTx)
       /\ ValidIndex(accounts, account_index)
       /\ ReceiveTransaction(account_index, PeerAddress, amount, None)
  \/ \E account_index \in 0 .. MaxAccounts - 1, amount \in SendAmounts :
       /\ HistoryRoom(MaxLiveTx)
       /\ SendTransaction(account_index, PeerAddress, amount, <<>>)
  \/ RunMonitor

SpecLive == Init /\ [][NextLive]_vars /\ WF_vars(RunMonitor)

----------------------------------------------------------------------------
(* Properties of the ledger                                                *)

\* The balance the data model prescribes: Confirmed Received amounts minus
\* Confirmed Sent amounts and fees.
RECURSIVE ConfirmedSum(_)
ConfirmedSum(txs) ==
  IF txs = <<>> THEN 0
  ELSE (IF Head(txs).status # STATUS_CONFIRMED THEN 0
        ELSE IF Head(txs).type = "Received" THEN Head(txs).amount
        ELSE IF Head(txs).type = "Sent"
          THEN 0 - (Head(txs).amount + Head(txs).fee)
        ELSE 0) + ConfirmedSum(Tail(txs))

Balances(accs) == [k \in 1 .. Len(accs) |-> accs[k].balance]
HistoryLengths(accs) == [k \in 1 .. Len(accs) |-> Len(accs[k].transactions)]

\* C1: in every reachable state every account's balance equals the sum of
\* its Confirmed Received amounts minus the sum of amount + fee of its
\* Confirmed Sent transactions.
C1_BalanceIsConfirmedSum ==
  \A k \in 1 .. Len(accounts) :
    accounts[k].balance = ConfirmedSum(accounts[k].transactions)

\* C2: two callers never hold, at the same time, a transaction each that
\* passed the balance check of the same account while each asks for the
\* whole balance (amount + fee = balance).
C2_AtMostOneFullBalanceSend ==
  ~ /\ pc[1] # "idle"
    /\ pc[2] # "idle"
    /\ pending[1].account_index = pending[2].account_index
    /\ LET B == get_balance(accounts, pending[1].account_index)
       IN /\ B > 0
          /\ pending[1].tx.amount + pending[1].tx.fee = B
          /\ pending[2].tx.amount + pending[2].tx.fee = B

\* C3: a step that records a Sent transaction as Pending (send_transaction,
\* broadcast_transaction) leaves every balance as it was.
C3_PendingSentKeepsBalance ==
  [][(call'.op \in {"send_transaction", "broadcast_transaction"}
        /\ result'.ok)
       => Balances(accounts') = Balances(accounts)]_vars

\* C4: receive_transaction with an id the account's history already holds
\* changes neither the balance nor the number of history entries.
C4_KnownIdIsNoOp ==
  [][(call'.op = "receive_transaction"
        /\ get_transaction(accounts, call'.account_index,
                           call'.transaction_id) # NoTx)
       => /\ Balances(accounts') = Balances(accounts)
          /\ HistoryLengths(accounts') = HistoryLengths(accounts)]_vars

\* What C5 names as the reasons for create_transaction to fail.
CreateMustFail(accs, c) ==
  \/ c.amount <= 0
  \/ ~(c.recipient_address.pfx = "aleo1"
       /\ c.recipient_address.len >= MinAddressLen)
  \/ ~(c.account_index \in 0 .. Len(accs) - 1)
  \/ accs[c.account_index + 1].balance
       < c.amount + Max(min_fee, default_fee + Len(c.memo) * fee_per_byte)

----------------------------------------------------------------------------
(* Properties of the master password                                       *)

CorrectPassword(s, password) ==
  /\ s.password_hash # NoHash
  /\ PasswordHash(password, s.password_salt) = s.password_hash

IncorrectPassword(s, password) ==
  /\ s.password_hash # NoHash
  /\ PasswordHash(password, s.password_salt) # s.password_hash

VerifyOutcome(s, t, password, ret, clock) ==
  /\ CorrectPassword(s, password)
       => /\ ret = TRUE
          /\ t.failed_attempts = 0
          /\ t.last_access = clock
  /\ IncorrectPassword(s, password)
       => /\ ret = FALSE
          /\ t.failed_attempts = s.failed_attempts + 1
          /\ t.locked <=> (t.failed_attempts = s.failed_attempts_limit)

----------------------------------------------------------------------------
(* Properties of the vault and of the data cipher                          *)

\* The password an encrypted file was sealed with.
SealedWith(f) == f.token.key[1]

\* C9: decrypt_wallet on an encrypted vault, with a password other than the
\* one it was encrypted with, returns False and leaves the accounts, the
\* encryption key, the salt, the encrypted flag and the file as they were.
C9_WrongPasswordLeavesVault ==
  [][(call'.op = "decrypt_wallet"
        /\ file.kind = "enc"
        /\ call'.password # SealedWith(file))
       => /\ result' = FALSE
          /\ UNCHANGED <<accounts, encryption_key, salt, is_encrypted,
                         file>>]_vars

\* A reopened wallet whose vault holds an account refused a wrong password.
C9_Witness ==
  /\ call.op = "decrypt_wallet"
  /\ file.kind = "enc"
  /\ call.password # SealedWith(file)
  /\ Len(file.token.plaintext.accounts) > 0
  /\ is_encrypted
  /\ encryption_key = NoKey
  /\ accounts = <<>>
  /\ result = FALSE

\* C10: decrypt_data with a password other than the one encrypt_data was
\* given raises; it never returns a value.
C10_WrongPasswordRaises ==
  [][(call'.op = "decrypt_data"
        /\ call'.password # blob.ciphertext.key[1])
       => result'.raised]_vars

C12_CrashLeavesOldOrNew ==
  [][call'.op = "save_wallet_crash"
       => \/ file' = file
          \/ file' = SavedFile(accounts, is_encrypted, encryption_key,
                               salt)]_vars

----------------------------------------------------------------------------
(* Properties of transactions, keys, contacts and sync                     *)

\* The j-th oldest transaction of a history (new ones go to the front).
FromOldest(transactions, j) == transactions[Len(transactions) + 1 - j]

\* C13: a transaction whose status is Confirmed or Failed keeps its status
\* and every field other than block_height in every later step.
C13_TerminalStatusIsFinal ==
  [][\A k \in 1 .. Len(accounts) :
       \A j \in 1 .. Len(accounts[k].transactions) :
         LET old == FromOldest(accounts[k].transactions, j)
             new == FromOldest(accounts'[k].transactions, j)
         IN old.status \in {STATUS_CONFIRMED, STATUS_FAILED}
              => [new EXCEPT !.block_height = old.block_height] = old]_vars

\* The gate lets a client through: a master password exists, the gate is
\* not inside a lockout and the auto-lock timeout has not passed.
Authenticated ==
  /\ settings.password_hash # NoHash
  /\ ~(settings.locked /\ now - settings.lockout_time < LockoutSeconds)
  /\ ~should_auto_lock(settings, now)

\* C14: export_private_key gives no private key unless the gate is
\* Authenticated.
C14_ExportNeedsSession ==
  [][(call'.op = "export_private_key" /\ ~Authenticated) => ~result'.ok]_vars

\* C15: accounts with the same private key have the same view key and the
\* same address, however they were made; and an import of the private key
\* of a generated key triple gives that triple's view key and address.
C15_ImportIsDeterministic ==
  /\ \A i, j \in 1 .. Len(accounts) :
       accounts[i].private_key = accounts[j].private_key
         => /\ accounts[i].view_key = accounts[j].view_key
            /\ accounts[i].address = accounts[j].address
  /\ \A seed \in Seeds :
       (call.op = "import_account_from_private_key"
          /\ call.private_key = generate_new_key_pair(seed).private_key)
         => /\ result.view_key = generate_new_key_pair(seed).view_key
            /\ result.address = generate_new_key_pair(seed).address

\* A generated account and an import of its private key stand side by side.
C15_Witness ==
  /\ Len(accounts) = 2
  /\ accounts[1].name = <<"Account", 1>>
  /\ accounts[2].name = <<"Imported Account", 2>>
  /\ accounts[1].private_key = accounts[2].private_key
  /\ call.op = "import_account_from_private_key"

\* update_account leaves the number of accounts, their private keys and
\* their addresses as they were.
IdentityKept ==
  /\ Len(accounts') = Len(accounts)
  /\ \A k \in 1 .. Len(accounts) :
       /\ accounts'[k].private_key = accounts[k].private_key
       /\ accounts'[k].address = accounts[k].address

NamesIdentity(names) == names \cap {"private_key", "address"} # {}

\* C18 as claimed: update_account keeps every private key and address, and
\* an update that names one of them is rejected.
C18_IdentityUpdateRejected ==
  [][call'.op = "update_account"
       => /\ IdentityKept
          /\ NamesIdentity(call'.names)
               => (result' = FALSE /\ accounts' = accounts)]_vars

\* C18 as amended: update_account keeps every private key and address; of
\* an update that names one of them on a valid index, the other entries are
\* applied and the call returns True.
C18_IdentityKept ==
  [][call'.op = "update_account"
       => /\ IdentityKept
          /\ (NamesIdentity(call'.names) /\ "name" \in call'.names
                /\ ValidIndex(accounts, call'.index))
               => /\ result' = TRUE
                  /\ accounts'[call'.index + 1].name = "Savings"]_vars

\* An update naming private_key and name went through: the name changed,
\* the private key did not.
C18_Witness ==
  /\ call.op = "update_account"
  /\ call.names = {"name", "private_key"}
  /\ result = TRUE
  /\ ValidIndex(accounts, call.index)
  /\ accounts[call.index + 1].name = "Savings"
  /\ accounts[call.index + 1].private_key # private_key_of(Seed("A2"))

\* C16: send_transaction to "aleo1recipient" from an account that holds at
\* least amount + fee returns a transaction id; the history has one more
\* entry, the newest, a Pending Sent transaction with the recipient, the
\* amount, the memo and the returned id, and the balance is lower.
C16_SendToShortAddress ==
  [][\A account_index \in AccountIndices, amount \in SendAmounts :
       (/\ call'.op = "send_transaction"
        /\ ValidIndex(accounts, account_index)
        /\ amount > 0
        /\ get_balance(accounts, account_index)
             >= amount + calculate_fee(amount, <<>>)
        /\ SendTransaction(account_index, ShortAddress, amount, <<>>))
         => LET before == accounts[account_index + 1]
                after == accounts'[account_index + 1]
            IN /\ result'.ok
               /\ Len(after.transactions) = Len(before.transactions) + 1
               /\ after.transactions[1].type = "Sent"
               /\ after.transactions[1].status = STATUS_PENDING
               /\ after.transactions[1].recipient = ShortAddress
               /\ after.transactions[1].amount = amount
               /\ after.transactions[1].memo = <<>>
               /\ after.transactions[1].transaction_id
                    = result'.transaction_id
               /\ after.balance < before.balance]_vars

ValidContact(accs, account_index, contact_index) ==
  /\ ValidIndex(accs, account_index)
  /\ 0 <= contact_index
  /\ contact_index < Len(accs[account_index + 1].contacts)

\* C17: add_contact of "Alice" with "aleo1alice" succeeds and appends the
\* contact; a search whose query is the name of a contact in another
\* letter case returns that contact, and returns contacts of the list only;
\* remove_contact takes the contact out and leaves the others in order.
C17_AliceAddedFoundRemoved ==
  [][\A account_index \in AccountIndices :
       /\ (call'.op = "add_contact"
             /\ ValidIndex(accounts, account_index)
             /\ AddContact(account_index, Alice, AliceAddress, "Friend"))
            => LET after == accounts'[account_index + 1].contacts
               IN /\ result'.ok /\ result'.ret
                  /\ Len(after)
                       = Len(accounts[account_index + 1].contacts) + 1
                  /\ after[Len(after)].name = Alice
                  /\ after[Len(after)].address = AliceAddress
       /\ \A query \in Queries :
            (call'.op = "search_contacts"
               /\ ValidIndex(accounts, account_index)
               /\ SearchContacts(account_index, query))
              => LET contacts == accounts[account_index + 1].contacts
                 IN /\ \A k \in 1 .. Len(contacts) :
                         Lower(contacts[k].name) = Lower(query)
                           => \E r \in 1 .. Len(result') :
                                result'[r] = contacts[k]
                    /\ \A r \in 1 .. Len(result') :
                         \E k \in 1 .. Len(contacts) :
                           result'[r] = contacts[k]
       /\ \A contact_index \in 0 .. MaxContacts :
            (call'.op = "remove_contact"
               /\ ValidContact(accounts, account_index, contact_index)
               /\ RemoveContact(account_index, contact_index))
              => LET contacts == accounts[account_index + 1].contacts
                 IN accounts'[account_index + 1].contacts
                      = SubSeq(contacts, 1, contact_index)
                          \o SubSeq(contacts, contact_index + 2,
                                    Len(contacts))]_vars

\* C19: update_contact and update_last_used leave the number of contacts
\* and the address of every contact as they were; an update of the name or
\* of the description of an existing contact is written.
C19_ContactAddressIsFixed ==
  [][/\ call'.op \in {"update_contact", "update_last_used"}
          => \A k \in 1 .. Len(accounts) :
               /\ Len(accounts'[k].contacts) = Len(accounts[k].contacts)
               /\ \A c \in 1 .. Len(accounts[k].contacts) :
                    accounts'[k].contacts[c].address
                      = accounts[k].contacts[c].address
     /\ \A account_index \in AccountIndices,
           contact_index \in 0 .. MaxContacts, updates \in ContactUpdates :
          (call'.op = "update_contact"
             /\ ValidContact(accounts, account_index, contact_index)
             /\ UpdateContact(account_index, contact_index, updates))
            => LET after ==
                     accounts'[account_index + 1].contacts[contact_index + 1]
               IN /\ "name" \in DOMAIN updates
                       => after.name = updates.name
                  /\ "description" \in DOMAIN updates
                       => after.description = updates.description]_vars

\* An update that named the description and another address changed the
\* description of a contact and left its address.
C19_Witness ==
  /\ call.op = "update_contact"
  /\ \E k \in 1 .. Len(accounts) :
       \E c \in 1 .. Len(accounts[k].contacts) :
         /\ accounts[k].contacts[c].description = "Colleague"
         /\ accounts[k].contacts[c].address = LongAddress("q")

\* C20: no two sync passes are inside the account-sync section of the same
\* account at the same time: of the background thread and a manual caller,
\* at most one is inside _sync_account(i) for any i.
C20_OneSyncPerAccount ==
  \A c, d \in SyncCallers :
    (/\ c # d
     /\ syncing[c].at = "account"
     /\ syncing[d].at = "account") => syncing[c].i # syncing[d].i

\* C21: last_sync_time advances only when a full sync pass completed
\* successfully: a pass in which the chain-info update or the sync of an
\* account failed leaves last_sync_time as it was when it ends.
C21_FailedPassKeepsSyncTime ==
  [][\A c \in SyncCallers :
       (/\ call'.op = "sync_done"
        /\ syncing[c].at = "loop"
        /\ syncing'[c].at = "idle"
        /\ syncing[c].failed) => last_sync_time' = last_sync_time]_vars

\* C22: within one account sync, when the fetch of one listed id fails,
\* every other listed id that the ledger did not know and whose fetch
\* succeeds is in the account's history when the sync returns.
C22_OtherIdsStillIngested ==
  [][call'.op = "sync_account" =>
       \A account_index \in 0 .. Len(accounts) - 1 :
         \A tx_ids \in IdLists(get_account(accounts, account_index).address) :
         \A outcome \in Outcomes(tx_ids) :
           SyncAccount(account_index, tx_ids, outcome) =>
             \A k \in 1 .. Len(tx_ids) :
               (/\ get_transaction(accounts, account_index, tx_ids[k]) = NoTx
                /\ outcome[tx_ids[k]] = "ok")
               => get_transaction(accounts', account_index, tx_ids[k]) # NoTx]_vars

\* The ids of a list, whatever their order.
Listed(tx_ids) == {tx_ids[k] : k \in 1 .. Len(tx_ids)}

\* C23: ingestion is commutative: when an account sync has fetched and
\* ingested the listed transactions, the balance is the one the sync would
\* have left had the same transactions arrived in any other order.
C23_IngestionCommutes ==
  [][call'.op = "sync_account" /\ result' =>
       \A account_index \in 0 .. Len(accounts) - 1 :
         \A tx_ids \in IdLists(get_account(accounts, account_index).address) :
           LET AllOk == [id \in Listed(tx_ids) |-> "ok"]
           IN SyncAccount(account_index, tx_ids, AllOk) =>
                \A other \in IdLists(get_account(accounts, account_index).address) :
                  Listed(other) = Listed(tx_ids) =>
                    get_balance(
                      update_account_balance(
                        SyncLoop(accounts, account_index, other, AllOk).accs,
                        account_index),
                      account_index)
                    = get_balance(accounts', account_index)]_vars

\* C24: broadcast_transaction never assigns a transaction id to, records in
\* the ledger or starts monitoring a transaction that carries no signature:
\* whenever it has done any of these, the transaction it was given was
\* signed.
C24_BroadcastNeedsSignature ==
  [][\A p \in Procs :
       (/\ call'.op = "broadcast_transaction"
        /\ pending[p].tx # NoTx
        /\ pending'[p].tx = NoTx
        /\ \/ accounts' # accounts
           \/ monitors' # monitors
           \/ result'.transaction_id # NoId)
       => pending[p].tx.signature # NoSig]_vars

\* The transaction ids in the histories of the wallet.
IdsIn(accs) ==
  UNION {{accs[k].transactions[j].transaction_id :
            j \in 1 .. Len(accs[k].transactions)} : k \in 1 .. Len(accs)}

\* C25: an id generated by receive_transaction, broadcast_transaction or
\* send_transaction is distinct from every id in a history before the call,
\* also when the calls are made within the same clock second.
C25_GeneratedIdIsFresh ==
  [][/\ (/\ call'.op = "receive_transaction"
         /\ accounts' # accounts
         /\ call'.transaction_id[1] = "at")
        => call'.transaction_id \notin IdsIn(accounts)
     /\ (/\ call'.op \in {"broadcast_transaction", "send_transaction"}
         /\ result'.ok)
        => result'.transaction_id \notin IdsIn(accounts)]_vars

\* C26: check_network_status returns False and leaves the status
\* Disconnected whenever the latest-height query fails, by a transport
\* error, an error response or an exception, after that one failure; a
\* query that succeeds returns True and leaves the status Connected.
C26_OneFailureDisconnects ==
  [][call'.op = "check_network_status" =>
       IF call'.outcome = "ok"
         THEN result' /\ is_connected'
         ELSE ~result' /\ ~is_connected']_vars

\* C27: when the wallet file cannot be written during generate_account,
\* add_transaction, add_contact, update_account or delete_account, the
\* change of the accounts is kept in memory and the result the caller gets
\* reports the failure.
C27_WriteFailureIsReported ==
  [][(/\ ~writable
      /\ call'.op \in {"generate_account", "receive_transaction",
                       "add_contact", "update_account", "delete_account"}
      /\ saved' = saved
      /\ accounts' # accounts)
     => IF call'.op \in {"update_account", "delete_account"}
          THEN ~result'
          ELSE "ok" \in DOMAIN result' /\ ~result'.ok]_vars

\* C28: after encrypt_wallet(P) returns True the file is the encrypted form
\* of the complete account list, which P opens; after disable_encryption
\* switches an encrypted wallet and returns True it is the plain form of the
\* complete list; and after every
\* mutation of the ledger the file is ciphertext when is_encrypted is true
\* and plain text when it is not.
C28_FileMatchesMode ==
  [][/\ (call'.op = "encrypt_wallet" /\ result')
        => /\ file'.kind = "enc"
           /\ decrypt_wallet(file', call'.password).ok
           /\ decrypt_wallet(file', call'.password).accounts = accounts'
     /\ (call'.op = "disable_encryption" /\ result' /\ is_encrypted)
        => /\ file'.kind = "plain"
           /\ file'.data = WalletData(accounts')
     /\ (/\ call'.op \in {"generate_account", "receive_transaction"}
         /\ accounts' # accounts)
        => file'.kind = (IF is_encrypted' THEN "enc" ELSE "plain")]_vars

\* C29 as stated: after change_master_password(old, new) has succeeded, for
\* old different from new, a verification of new succeeds and one of old
\* fails; change_master_password with a wrong old password fails and leaves
\* the stored hash and salt as they were.
C29_ChangeReplacesPassword ==
  [][call'.op = "change_master_password" =>
       \A old_password, new_password \in GatePasswords, slt \in GateSalts :
         ChangeMasterPassword(old_password, new_password, slt) =>
           /\ (result' /\ old_password # new_password)
              => /\ verify_master_password(settings', new_password, now).ret
                 /\ ~verify_master_password(settings', old_password, now).ret
           /\ IncorrectPassword(settings, old_password)
              => /\ ~result'
                 /\ settings'.password_hash = settings.password_hash
                 /\ settings'.password_salt = settings.password_salt]_vars

\* C29, amended: after change_master_password(old, new) has succeeded, for
\* old different from new, a verification of new succeeds and one of old
\* fails; while password protection is enabled, change_master_password with
\* a wrong old password fails and leaves the stored hash and salt as they
\* were.
C29_ChangeWhenProtected ==
  [][call'.op = "change_master_password" =>
       \A old_password, new_password \in GatePasswords, slt \in GateSalts :
         ChangeMasterPassword(old_password, new_password, slt) =>
           /\ (result' /\ old_password # new_password)
              => /\ verify_master_password(settings', new_password, now).ret
                 /\ ~verify_master_password(settings', old_password, now).ret
           /\ WrongPassword(settings, old_password)
              => /\ ~result'
                 /\ settings'.password_hash = settings.password_hash
                 /\ settings'.password_salt = settings.password_salt]_vars

\* The old password was compared and accepted, and another one is now stored.
C29_Witness ==
  /\ call.op = "change_master_password"
  /\ result = TRUE
  /\ compared
  /\ settings.password_hash # PasswordHash(call.password, settings.password_salt)

\* C30 as stated: should_auto_lock returns true exactly when
\* now - last_access > auto_lock_timeout, whatever the other security
\* settings are, and it changes no state.
C30_AutoLockOnIdleAlone ==
  [][call'.op = "should_auto_lock" =>
       /\ result' = (now - settings.last_access > settings.auto_lock_timeout)
       /\ UNCHANGED <<settings, gateFrame, now>>]_vars

\* C30, amended: should_auto_lock returns true exactly when password
\* protection is enabled and now - last_access > auto_lock_timeout, whatever
\* the other security settings are, and it changes no state.
C30_AutoLockWhenProtected ==
  [][call'.op = "should_auto_lock" =>
       /\ result' = (/\ settings.password_required
                     /\ now - settings.last_access > settings.auto_lock_timeout)
       /\ UNCHANGED <<settings, gateFrame, now>>]_vars

\* should_auto_lock has answered true on a gate that is locked out after
\* failed attempts.
C30_Witness ==
  /\ call.op = "should_auto_lock"
  /\ result = TRUE
  /\ settings.locked
  /\ settings.failed_attempts > 0

\* C31: a monitor thread changes the status and the block height of no
\* transaction of an account other than the one it was started for, and it
\* does not raise.
C31_MonitorKeepsToItsAccount ==
  [][call'.op = "monitor" =>
       /\ result'.ok
       /\ \A m \in 1 .. Len(monitors) :
            (MonitorConfirm(m)
               \/ \E latest_height \in LatestHeights :
                    MonitorRecord(m, latest_height))
            => \A k \in 1 .. Len(accounts) :
                 accounts[k].address # monitors[m].owner
                 => \A j \in 1 .. Len(accounts[k].transactions) :
                      /\ accounts'[k].transactions[j].status
                           = accounts[k].transactions[j].status
                      /\ accounts'[k].transactions[j].block_height
                           = accounts[k].transactions[j].block_height]_vars

\* The status of the d-th transaction of account k counted from the oldest
\* (entries are inserted in front and none is removed), None when there is
\* no such transaction.
StatusAt(k, d) ==
  IF k <= Len(accounts) /\ d <= Len(accounts[k].transactions)
    THEN accounts[k].transactions[Len(accounts[k].transactions) + 1 - d].status
    ELSE None

\* C32: every transaction that is Pending is eventually Confirmed or Failed,
\* when no account is deleted and the monitor threads are scheduled.
C32_PendingReachesTerminal ==
  \A k \in 1 .. MaxAccounts, d \in 1 .. MaxLiveTx :
    (StatusAt(k, d) = STATUS_PENDING)
      ~> (StatusAt(k, d) \in {STATUS_CONFIRMED, STATUS_FAILED})

\* C33: a failed chain query or an exception inside an iteration of the
\* background loop does not end the loop: the thread never dies, and after
\* a failed cycle it comes back to the top of the loop.
C33_LoopSurvivesFailures ==
  /\ [](sync_thread # "dead")
  /\ (sync_thread = "backoff" \/ syncing["background"].failed
        \/ (call.op = "sync_failed" /\ sync_thread = "status"))
       ~> (sync_thread = "top")

\* The thread is back at the top of the loop after the sleep of its handler.
C33_Witness ==
  /\ call.op = "sync_thread_sleep"
  /\ call.after = "backoff"
  /\ sync_thread = "top"

\* C38: a call of sync_with_blockchain that has set sync_in_progress has
\* reset it when it returns, by the last statement of the try or by the
\* handler, and a flag that is set is cleared again.
C38_FlagIsReset ==
  /\ [][\A c \in SyncCallers :
          (syncing[c].at \in {"loop", "account"} /\ syncing'[c].at = "idle")
          => ~sync_in_progress']_vars
  /\ sync_in_progress ~> ~sync_in_progress

\* A call has left through the handler with the flag cleared.
C38_Witness ==
  /\ call.op = "sync_failed"
  /\ result = FALSE
  /\ ~sync_in_progress
  /\ \E c \in SyncCallers : syncing[c].at \in {"loop", "account"}

\* C34: in every account the history is ordered newest first by timestamp.
C34_HistoryNewestFirst ==
  \A k \in 1 .. Len(accounts) :
    \A i, j \in 1 .. Len(accounts[k].transactions) :
      i < j => accounts[k].transactions[i].timestamp
                 >= accounts[k].transactions[j].timestamp

\* C35: while the wallet is loaded from an encrypted file and not yet
\* decrypted (is_encrypted true, no key held), no ledger operation writes the
\* file: the vault stays as it was.
C35_LockedVaultIsKept ==
  [][(/\ is_encrypted
      /\ encryption_key = NoKey
      /\ file.kind = "enc"
      /\ call'.op \in {"generate_account", "receive_transaction"})
     => file' = file]_vars

\* C36: while the gate is locked and the cool-down has not elapsed, no
\* operation clears the locked flag or the failed-attempt counter or
\* replaces the stored password; create_master_password and
\* enable_password_protection in particular do not.
C36_OnlyExpiryUnlocks ==
  [][(settings.locked /\ now - settings.lockout_time < LockoutSeconds)
     => /\ settings'.locked
        /\ settings'.failed_attempts = settings.failed_attempts
        /\ settings'.password_hash = settings.password_hash
        /\ settings'.password_salt = settings.password_salt]_vars

\* C37: the private key, the view key and the address that
\* generate_new_key_pair and generate_account produce pass
\* validate_private_key, validate_view_key and validate_address.
C37_GeneratedKeysAreValid ==
  [][/\ call'.op = "generate_new_key_pair"
        => /\ validate_private_key(result'.private_key)
           /\ validate_view_key(result'.view_key)
           /\ validate_address(result'.address)
     /\ call'.op = "generate_account"
        => /\ validate_private_key(accounts'[Len(accounts')].private_key)
           /\ validate_view_key(accounts'[Len(accounts')].view_key)
           /\ validate_address(accounts'[Len(accounts')].address)]_vars

\* C39: the balance of every account is at least 0 in every reachable
\* state.
C39_BalanceNeverNegative ==
  \A k \in 1 .. Len(accounts) : accounts[k].balance >= 0

====
